---------------------------- MODULE Spec2Model ----------------------------
(***************************************************************************)
(* Proof validation of lean_llm_test: src/validate.py (the primary         *)
(* validation run) and src/revalidate.py (the repair pass), with the Lean  *)
(* REPL server of lean_interact as the environment.                        *)
(*                                                                         *)
(* Python's None is the empty tuple and a present value x is <<x>>, so     *)
(* that "a list or None" and "an empty list" stay different values.        *)
(* Texts are sequences of one-character strings.  Python indices are       *)
(* 0-based (idx, statement_idx); sequences here are 1-based.               *)
(***************************************************************************)
EXTENDS Integers, Sequences, FiniteSets, TLC

\* ------------------------------------------------------------- bounds
\* Number of tasks of the dataset (and of generation records).
NTasks == 2
\* Total number of candidates the primary run has to check.
MaxTotalCands == 3
\* Total number of candidates of the tasks the repair pass has to re-run.
MaxRepairCands == 2
\* Candidates to repair in a file that revalidate.py is run on twice.
MaxAgainCands == 1
\* Candidates of a generation record that combine_files merges.
MaxMergeCands == 2
\* Length of an array of a validation record that combine_files merges.
MaxValLen == 2
\* Theorem results that analyze_results is given.
MaxResults == 2
\* Candidates of all theorem results together.
MaxMetricCands == 3
\* The largest k that compute_pass_at_k is called with.
MaxK == 4
\* Result files of the directory find_longest.py reads.
MaxFiles == 2
\* Theorems of all the result files of the directory together.
MaxEntries == 3
\* The largest top_k of find_longest_correct_proofs_directory.
MaxTopK == 2
\* Lines of a response extract_proof_from_response is given.
MaxLines == 4
\* The largest n_candidates of generate.
MaxNCandidates == 3
\* The largest batch_size of generate.
MaxBatchSize == 3
\* Candidates of all the generation records extract_unique_false_proofs reads.
MaxFalseCands == 2

\* ------------------------------------------------ program constants
\* validate.py: while ... and n_tries < 3
PrimaryTries == 3
\* revalidate.py: while ... and n_tries < 5
RepairTries == 5
\* revalidate.py: expected_len = 6
expected_len == 6

\* --------------------------------------------------------- Python data
None == << >>
Some(x) == << x >>
IsNone(o) == o = << >>
Get(o) == o[1]

NL == "\n"

RECURSIVE SplitFrom(_, _, _, _)
SplitFrom(text, i, cur, acc) ==
    IF i > Len(text)
    THEN IF cur = << >> THEN acc ELSE Append(acc, cur)
    ELSE IF text[i] = NL
         THEN SplitFrom(text, i + 1, << >>, Append(acc, cur))
         ELSE SplitFrom(text, i + 1, Append(cur, text[i]), acc)

\* str.splitlines(): the lines of a text, without their line breaks; a final
\* line break opens no further line and the empty text has no line.
splitlines(text) == SplitFrom(text, 1, << >>, << >>)

\* theorem_statement + " := " + proof
CommandText(statement, proof) == statement \o << " ", ":", "=", " " >> \o proof

\* ------------------------------------------------------------ dataset
\* One line of the dataset joined with its generation record: the statement
\* and the candidates generated for it.
TaskPool ==
    { [theoremStatement |-> << "t", NL, "u" >>,
       candidates |-> << << "p", NL >>, << >> >>],
      [theoremStatement |-> << "t" >>,
       candidates |-> << << "p", NL, "q" >> >>] }

\* A task with as many candidates as revalidate.py expects (expected_len).
FullTask ==
    [theoremStatement |-> << "t" >>,
     candidates |-> [j \in 1..expected_len |-> << "p" >>]]

RECURSIVE TotalCands(_)
TotalCands(ts) ==
    IF ts = << >> THEN 0 ELSE Len(Head(ts).candidates) + TotalCands(Tail(ts))

Datasets ==
    { ts \in [1..NTasks -> TaskPool] : TotalCands(ts) <= MaxTotalCands }

\* -------------------------------------------------- the Lean REPL server
\* A position of a message: line and column in the command's text.
Pos(l, c) == [line |-> l, column |-> c]

\* The diagnostics the checker can put first for a command: any line of the
\* command, with or without a start and an end position.
Diagnostics(cmd) ==
    { [data |-> "first", start_pos |-> s, end_pos |-> e] :
        s \in {None} \cup { Some(Pos(l, 4)) : l \in 1..Len(splitlines(cmd)) },
        e \in {None} \cup { Some(Pos(Len(splitlines(cmd)), 10)) } }

\* A diagnostic that follows the first one.
LaterDiagnostic == [data |-> "later", start_pos |-> Some(Pos(1, 0)), end_pos |-> None]

\* The lists of messages of a CommandResponse: none, or a first diagnostic
\* with or without a later one.
MessageLists(cmd) ==
    { << >> } \cup
    { << m >> \o later : m \in Diagnostics(cmd), later \in { << >>, << LaterDiagnostic >> } }

\* What server.run returns for Command(cmd, env) on a process holding nenv
\* environments: a LeanError, or a CommandResponse with its messages, the
\* library's verdict lean_code_is_valid(allow_sorry=False) and a new
\* environment.  An unknown environment gives a LeanError.
LeanErrors == { [kind |-> "LeanError", message |-> "error", valid |-> FALSE,
                 messages |-> << >>, env |-> None] }

\* A valid answer carries no message or a warning; an answer that is not
\* valid carries any list of messages.
CommandResponses(cmd, nenv) ==
    { [kind |-> "CommandResponse", message |-> "", valid |-> TRUE,
       messages |-> ms, env |-> Some(nenv)] :
        ms \in { << >>, << LaterDiagnostic >> } }
    \cup
    { [kind |-> "CommandResponse", message |-> "", valid |-> FALSE,
       messages |-> ms, env |-> Some(nenv)] :
        ms \in MessageLists(cmd) }

RunResults(cmd, env, nenv) ==
    IF IsNone(env) \/ Get(env) < nenv
    THEN LeanErrors \cup CommandResponses(cmd, nenv)
    ELSE LeanErrors

\* The exceptions server.run raises that check_context_proofs catches, and
\* one it does not catch.
CaughtExceptions == { "TimeoutError", "ConnectionAbortedError", "JSONDecodeError" }
OtherExceptions == { "RuntimeError" }
\* What server.run can raise on the context (validate.py 33): no timeout is
\* given there, the transport can fail as in any call.
ContextExceptions == OtherExceptions \cup { "ConnectionAbortedError", "JSONDecodeError" }

isinstance_LeanError(out) == out.kind = "LeanError"
lean_code_is_valid(out) == out.valid

\* ------------------------------------------------------------- state
VARIABLES
    passes,             \* history: runs of the script completed before this one
    script,             \* "validate" (validate.py) or "revalidate" (revalidate.py)
    pc,                 \* position of the script
    tasks,              \* the dataset joined with the generation records
    file,               \* validation_results of the validation file, None if absent
    cursor,             \* iterations of the for loop over the tasks already done
    idx,                \* statement index of the task being processed (0-based)
    n_tries,
    validation_result,  \* the record of the task being processed
    validation_results, \* validate.py: the records collected so far
    validations,        \* revalidate.py: the records loaded from the file
    revalidate,         \* revalidate.py: the indices selected for repair
    server,             \* the checker process of the attempt, None if none yet
    context_res,        \* answer to the context command of the last attempt
    context_env,
    correctness,
    error_messages,
    error_positions,
    compiled_line_counts,
    lean_output,        \* what the last server.run of the proof loop returned, None if it raised
    raised,             \* the exception of the last server.run or of the last attempt
    lastCmd,            \* history: the last command of the proof loop of this attempt
    definite,           \* history: candidates of this task with a definite failure
    \* organzie.py, combine_files
    mpc,                \* position of combine_files
    problems_data,
    generation_results, \* statement_idx -> generation record
    validation_index,   \* combine_files' validation_results: statement_idx -> record
    stmt_idx,
    combined_data,      \* combined_data["results"]: theoremName -> entry
    warnings,           \* the statement indices a warning was printed for
    output_file,        \* what was written to output_file, None if nothing
    merge_raised,       \* the exception that ended combine_files, None if none
    \* pass_at_k.py
    results,            \* the theorem results of one model
    candidates,         \* compute_pass_at_k: the argument of the last call
    k,                  \* compute_pass_at_k: the argument of the last call
    pass_at_k,          \* what the last call of compute_pass_at_k returned, None before
    metrics_data,       \* what analyze_results returned, None before
    \* scripts/find_longest.py, find_longest_correct_proofs_directory
    lpc,                \* position of find_longest_correct_proofs_directory
    jsonl_files,        \* the files of the directory, in the order glob gives them
    top_k,
    file_pos,           \* files of the outer for loop already left
    theorem_pos,        \* items of results.items() of the current file already done
    min_heap,
    file_errors,        \* the files a warning was printed for
    top_theorems,       \* what the function returned, None before
    \* generate.py, extract_proof_from_response
    response,           \* the argument of extract_proof_from_response
    extracted_proof,    \* what extract_proof_from_response returned, None before
    \* generate.py, generate
    gpc,                \* position of generate
    gen_config,         \* n_candidates, batch_size and whether the keys timed_completion reads are there
    batch_i,            \* the loop variable i
    requests,           \* the timed_completion calls issued so far: pending, or what each returned
    gen_candidates,     \* the list candidates
    durations,
    prompt_tokens,
    completion_tokens,
    total_tokens,
    generated,          \* what generate returned, None before
    batch_log,          \* history: start, size and fate of each batch processed
    events,             \* history: the batches dispatched and the sleeps begun, in order
    \* prepare/false_attempts.py, extract_unique_false_proofs
    fpc,                \* position of extract_unique_false_proofs
    generation_data,    \* generation_data["results"]
    validation_data,    \* validation_data["results"]
    task_data,
    gen_pos,            \* generation records of the for loop already done
    output_data,
    extract_raised      \* the exception that ended the function, None if none

vars == << passes, script, pc, tasks, file, cursor, idx, n_tries, validation_result,
           validation_results, validations, revalidate, server, context_res,
           context_env, correctness, error_messages, error_positions,
           compiled_line_counts, lean_output, raised, lastCmd, definite,
           mpc, problems_data, generation_results, validation_index, stmt_idx,
           combined_data, warnings, output_file, merge_raised,
           results, candidates, k, pass_at_k, metrics_data,
           lpc, jsonl_files, top_k, file_pos, theorem_pos, min_heap, file_errors,
           top_theorems,
           response, extracted_proof,
           gpc, gen_config, batch_i, requests, gen_candidates, durations, prompt_tokens, completion_tokens, total_tokens, generated, batch_log, events,
           fpc, generation_data, validation_data, task_data, gen_pos, output_data, extract_raised >>

mergeVars == << mpc, problems_data, generation_results, validation_index, stmt_idx,
               combined_data, warnings, output_file, merge_raised >>

metricVars == << results, candidates, k, pass_at_k, metrics_data >>

longestVars == << lpc, jsonl_files, top_k, file_pos, theorem_pos, min_heap,
                 file_errors, top_theorems >>

extractVars == << response, extracted_proof >>

genVars == << gpc, gen_config, batch_i, requests, gen_candidates, durations, prompt_tokens, completion_tokens, total_tokens, generated, batch_log, events >>

falseVars == << fpc, generation_data, validation_data, task_data, gen_pos, output_data, extract_raised >>

\* The variables of the scripts that are neither the validation pipeline, nor
\* combine_files, nor pass_at_k.py.
scriptVars == << longestVars, extractVars, genVars, falseVars >>

toolVars == << mergeVars, metricVars, scriptVars >>

pipelineVars == << passes, script, pc, tasks, file, cursor, idx, n_tries,
                  validation_result, validation_results, validations, revalidate,
                  definite, server, context_res, context_env, correctness,
                  error_messages, error_positions, compiled_line_counts,
                  lean_output, raised, lastCmd >>

\* What a script leaves alone: the variables of all the others.
notLongestVars == << pipelineVars, mergeVars, metricVars, extractVars, genVars,
                    falseVars >>
notExtractVars == << pipelineVars, mergeVars, metricVars, longestVars, genVars,
                    falseVars >>
notGenVars == << pipelineVars, mergeVars, metricVars, longestVars, extractVars,
                falseVars >>
notFalseVars == << pipelineVars, mergeVars, metricVars, longestVars, extractVars,
                  genVars >>

attemptVars == << server, context_res, context_env, correctness, error_messages,
                  error_positions, compiled_line_counts, lean_output, raised,
                  lastCmd >>

theorem_statement == tasks[idx + 1].theoremStatement
proofs == tasks[idx + 1].candidates

\* validate.py 97-103, revalidate.py 132-135: nothing validated yet.
EmptyResult(i) ==
    [statement_idx |-> i, correctness |-> None, error_positions |-> None,
     error_messages |-> None, compiled_line_counts |-> None]

\* The bound of the retry loop of each script.
MaxTries == IF script = "validate" THEN PrimaryTries ELSE RepairTries

\* Mutant of WhileCondition: one attempt too many.
WhileCondition_OffByOne == IsNone(validation_result.correctness) /\ n_tries <= MaxTries

\* Mutant of WhileCondition: the loop goes on after an attempt that returned.
WhileCondition_NoNoneTest == n_tries < MaxTries

\* The test of the while loop (validate.py 106, revalidate.py 137).
WhileCondition == IsNone(validation_result.correctness) /\ n_tries < MaxTries

\* ------------------------------------------------ check_context_proofs
\* Mutant of PassEntry: the lines counted as the pieces between line breaks,
\* as proof.split("\n") would.
RECURSIVE Breaks(_)
Breaks(text) ==
    IF text = << >> THEN 0
    ELSE (IF Head(text) = NL THEN 1 ELSE 0) + Breaks(Tail(text))

PassEntry_SplitOnBreaks(proof) ==
    [correct |-> Some(TRUE), error_message |-> None, error_position |-> None,
     compiled |-> Some(Breaks(proof) + 1)]

\* validate.py 48-51: the answer is valid.
PassEntry(proof) ==
    [correct |-> Some(TRUE), error_message |-> None, error_position |-> None,
     compiled |-> Some(Len(splitlines(proof)))]

\* Mutant of ErrorEntry: a LeanError taken for an indeterminate outcome.
ErrorEntry_Indeterminate(out) ==
    [correct |-> None, error_message |-> Some(out.message),
     error_position |-> None, compiled |-> None]

\* validate.py 53-56: the answer is a LeanError.
ErrorEntry(out) ==
    [correct |-> Some(FALSE), error_message |-> Some(out.message),
     error_position |-> None, compiled |-> None]

\* Mutant of DiagnosticEntry: the start line taken as it is, without the
\* lines of the statement.
DiagnosticEntry_NoOffset(message, statement) ==
    [correct |-> Some(FALSE),
     error_message |-> Some(message.data),
     error_position |->
         IF ~IsNone(message.start_pos) /\ ~IsNone(message.end_pos)
         THEN Some([start_pos |-> << Get(message.start_pos).line,
                                     Get(message.start_pos).column >>,
                    end_pos |-> << Get(message.end_pos).line,
                                   Get(message.end_pos).column >>])
         ELSE None,
     compiled |->
         IF ~IsNone(message.start_pos)
         THEN Some(Get(message.start_pos).line)
         ELSE None]

\* validate.py 58-66: the answer is not valid; message is its first message.
DiagnosticEntry(message, statement) ==
    [correct |-> Some(FALSE),
     error_message |-> Some(message.data),
     error_position |->
         IF ~IsNone(message.start_pos) /\ ~IsNone(message.end_pos)
         THEN Some([start_pos |-> << Get(message.start_pos).line,
                                     Get(message.start_pos).column >>,
                    end_pos |-> << Get(message.end_pos).line,
                                   Get(message.end_pos).column >>])
         ELSE None,
     compiled |->
         IF ~IsNone(message.start_pos)
         THEN Some(Get(message.start_pos).line - Len(splitlines(statement)))
         ELSE None]

\* One pass of the proof loop for an answer of the checker: the entries
\* appended to the four lists (validate.py 47-66).
Entry(out, statement, proof) ==
    IF ~isinstance_LeanError(out) /\ lean_code_is_valid(out)
    THEN PassEntry(proof)
    ELSE IF isinstance_LeanError(out)
    THEN ErrorEntry(out)
    ELSE DiagnosticEntry(out.messages[1], statement)

\* Mutant of IndeterminateEntry: a timeout taken for a failed proof.
IndeterminateEntry_AsFailure ==
    [correct |-> Some(FALSE), error_message |-> None, error_position |-> None,
     compiled |-> None]

\* The entries appended when server.run raises one of the caught exceptions
\* (validate.py 68-72).
IndeterminateEntry ==
    [correct |-> None, error_message |-> None, error_position |-> None,
     compiled |-> None]

\* messages[0] of an empty list raises IndexError (validate.py 60).
RaisesIndexError(out) ==
    /\ ~isinstance_LeanError(out)
    /\ ~lean_code_is_valid(out)
    /\ out.messages = << >>

\* Mutant of LeanServer: one process shared by every call.
LeanServer_Shared(i, n) == [task |-> 0, attempt |-> 0, nenv |-> 0]

\* The process a call of check_context_proofs starts (validate.py 32).
LeanServer(i, n) == [task |-> i, attempt |-> n, nenv |-> 0]

\* The process and the environment a check is submitted to (validate.py 44-45).
CheckServer == server
CheckEnv == context_env

ResetLists ==
    /\ correctness' = << >>
    /\ error_messages' = << >>
    /\ error_positions' = << >>
    /\ compiled_line_counts' = << >>

\* check_context_proofs is left: its locals are gone.
ExitLocals ==
    /\ server' = None
    /\ context_res' = None
    /\ context_env' = None
    /\ lean_output' = None
    /\ lastCmd' = None
    /\ ResetLists

\* Mutant of AttemptRaises: the exception is not caught and ends the script.
AttemptRaises_Propagates(e) ==
    /\ raised' = Some(e)
    /\ pc' = "aborted"
    /\ ExitLocals
    /\ UNCHANGED << n_tries, validation_result >>

\* Mutant of AttemptRaises: the lists of the attempt that raised are stored as
\* the record of the task.
AttemptRaises_StoresPartial(e) ==
    /\ raised' = Some(e)
    /\ n_tries' = n_tries + 1
    /\ pc' = "while"
    /\ ExitLocals
    /\ validation_result' =
           [statement_idx |-> idx,
            correctness |-> Some(correctness),
            error_positions |-> Some(error_positions),
            error_messages |-> Some(error_messages),
            compiled_line_counts |-> Some(compiled_line_counts)]

\* An exception e leaves check_context_proofs and is caught by the retry loop
\* (validate.py 119-121): the lists of the attempt are lost.
AttemptRaises(e) ==
    /\ raised' = Some(e)
    /\ n_tries' = n_tries + 1
    /\ pc' = "while"
    /\ ExitLocals
    /\ UNCHANGED validation_result

\* --------------------------------------------------------- the scripts
NoAttempt ==
    /\ server = None /\ context_res = None /\ context_env = None
    /\ correctness = << >> /\ error_messages = << >>
    /\ error_positions = << >> /\ compiled_line_counts = << >>
    /\ lean_output = None /\ raised = None /\ lastCmd = None

\* combine_files is not running.
MergeIdle ==
    /\ mpc = "idle"
    /\ problems_data = << >>
    /\ generation_results = << >>
    /\ validation_index = << >>
    /\ stmt_idx = 0
    /\ combined_data = << >>
    /\ warnings = << >>
    /\ output_file = None
    /\ merge_raised = None

\* pass_at_k.py is not running.
MetricsIdle ==
    /\ results = << >>
    /\ candidates = << >>
    /\ k = 0
    /\ pass_at_k = None
    /\ metrics_data = None

\* find_longest.py is not running.
LongestIdle ==
    /\ lpc = "idle"
    /\ jsonl_files = << >>
    /\ top_k = 0
    /\ file_pos = 0
    /\ theorem_pos = 0
    /\ min_heap = << >>
    /\ file_errors = {}
    /\ top_theorems = None

\* generate.py, extract_proof_from_response is not running.
ExtractIdle ==
    /\ response = << >>
    /\ extracted_proof = None

\* generate.py, generate is not running.
GenerateIdle ==
    /\ gpc = "idle"
    /\ gen_config = << >>
    /\ batch_i = 0
    /\ requests = << >>
    /\ gen_candidates = << >>
    /\ durations = << >>
    /\ prompt_tokens = << >>
    /\ completion_tokens = << >>
    /\ total_tokens = << >>
    /\ generated = None
    /\ batch_log = << >>
    /\ events = << >>

\* prepare/false_attempts.py, extract_unique_false_proofs is not running.
FalseAttemptsIdle ==
    /\ fpc = "idle"
    /\ generation_data = << >>
    /\ validation_data = << >>
    /\ task_data = << >>
    /\ gen_pos = 0
    /\ output_data = << >>
    /\ extract_raised = None

ScriptsIdle == LongestIdle /\ ExtractIdle /\ GenerateIdle /\ FalseAttemptsIdle

ToolsIdle == MergeIdle /\ MetricsIdle /\ ScriptsIdle

\* validate.py 83-87: the dataset and the generations are loaded, no result yet.
InitValidate ==
    /\ ToolsIdle
    /\ passes = 0
    /\ script = "validate"
    /\ pc = "for"
    /\ tasks \in Datasets
    /\ file = None
    /\ cursor = 0 /\ idx = 0 /\ n_tries = 0
    /\ validation_result = EmptyResult(0)
    /\ validation_results = << >>
    /\ validations = << >>
    /\ revalidate = << >>
    /\ definite = {}
    /\ NoAttempt

\* validate.py 89-105: the next task of the for loop.
ForNext ==
    /\ script = "validate"
    /\ pc = "for"
    /\ cursor < Len(tasks)
    /\ idx' = cursor
    /\ validation_result' = EmptyResult(cursor)
    /\ n_tries' = 0
    /\ definite' = {}
    /\ pc' = "while"
    /\ UNCHANGED << toolVars, passes, script, tasks, file, cursor, validation_results, validations,
                    revalidate, attemptVars >>

\* validate.py 106-108 and 30-40: the while test holds, check_context_proofs
\* starts a process and runs the context on it.
StartAttempt ==
    /\ pc = "while"
    /\ WhileCondition
    /\ \/ \* the context compiles: its environment is the first of the process
          /\ server' = Some([LeanServer(idx, n_tries) EXCEPT !.nenv = 1])
          /\ context_res' = Some([kind |-> "CommandResponse", env |-> Some(0)])
          /\ context_env' = Some(0)
          /\ lean_output' = None
          /\ lastCmd' = None
          /\ raised' = None
          /\ pc' = "check"
          /\ ResetLists
          /\ UNCHANGED << n_tries, validation_result >>
       \/ \* the context does not compile: the assert of line 34 fails
          AttemptRaises("AssertionError")
       \/ \* the process cannot be started or dies on the context
          \E e \in ContextExceptions : AttemptRaises(e)
    /\ UNCHANGED << toolVars, passes, script, tasks, file, cursor, idx, validation_results,
                    validations, revalidate, definite >>

AppendEntry(entry) ==
    /\ correctness' = Append(correctness, entry.correct)
    /\ error_messages' = Append(error_messages, entry.error_message)
    /\ error_positions' = Append(error_positions, entry.error_position)
    /\ compiled_line_counts' = Append(compiled_line_counts, entry.compiled)
    /\ pc' = "check"
    /\ UNCHANGED << n_tries, validation_result, context_res, context_env >>

\* The command of the pass for candidate j (validate.py 44-46).
SubmittedCommand(j) ==
    [server |-> [task |-> Get(CheckServer).task, attempt |-> Get(CheckServer).attempt],
     env |-> CheckEnv, task |-> idx, attempt |-> n_tries, cand |-> j,
     again |-> j \in definite]

\* Mutant of OnCaughtException: the exception leaves check_context_proofs.
OnCaughtException_Retry(e) ==
    /\ AttemptRaises(e)
    /\ UNCHANGED definite

\* validate.py 68-72: server.run raised one of the caught exceptions.
OnCaughtException(e) ==
    /\ AppendEntry(IndeterminateEntry)
    /\ lean_output' = None
    /\ raised' = Some(e)
    /\ lastCmd' = Some(SubmittedCommand(Len(correctness) + 1))
    /\ UNCHANGED << server, definite >>

\* validate.py 42-72: one pass of the proof loop.
CheckProof ==
    /\ pc = "check"
    /\ Len(correctness) < Len(proofs)
    /\ LET j == Len(correctness) + 1
           srv == Get(CheckServer)
           cmd == CommandText(theorem_statement, proofs[j])
       IN  \/ \E out \in RunResults(cmd, CheckEnv, srv.nenv) :
                IF RaisesIndexError(out)
                THEN AttemptRaises("IndexError") /\ UNCHANGED definite
                ELSE /\ AppendEntry(Entry(out, theorem_statement, proofs[j]))
                     /\ lean_output' = Some(out)
                     /\ raised' = None
                     /\ lastCmd' = Some(SubmittedCommand(j))
                     /\ server' = Some([srv EXCEPT !.nenv =
                                           IF isinstance_LeanError(out) THEN @ ELSE @ + 1])
                     /\ definite' =
                            IF ~isinstance_LeanError(out) /\ ~lean_code_is_valid(out)
                            THEN definite \cup {j} ELSE definite
           \/ \E e \in CaughtExceptions : OnCaughtException(e)
           \/ \E e \in OtherExceptions :
                /\ AttemptRaises(e)
                /\ UNCHANGED definite
    /\ UNCHANGED << toolVars, passes, script, tasks, file, cursor, idx, validation_results,
                    validations, revalidate >>

\* validate.py 74 and 108-121: check_context_proofs returns its lists, which
\* become the record of the task.
Return ==
    /\ pc = "check"
    /\ Len(correctness) = Len(proofs)
    /\ validation_result' =
           [statement_idx |-> idx,
            correctness |-> Some(correctness),
            error_positions |-> Some(error_positions),
            error_messages |-> Some(error_messages),
            compiled_line_counts |-> Some(compiled_line_counts)]
    /\ n_tries' = n_tries + 1
    /\ pc' = "while"
    /\ ExitLocals
    /\ raised' = None
    /\ UNCHANGED << toolVars, passes, script, tasks, file, cursor, idx, validation_results,
                    validations, revalidate, definite >>

\* Mutant of AppendResult: the file is written after every task.
AppendResult_Flush ==
    /\ script = "validate"
    /\ pc = "while"
    /\ ~WhileCondition
    /\ validation_results' = Append(validation_results, validation_result)
    /\ file' = Some(validation_results')
    /\ cursor' = cursor + 1
    /\ pc' = "for"
    /\ UNCHANGED << toolVars, passes, script, tasks, idx, n_tries, validation_result,
                    validations, revalidate, attemptVars, definite >>

\* validate.py 106 and 123: the while loop ends and the record is appended.
AppendResult ==
    /\ script = "validate"
    /\ pc = "while"
    /\ ~WhileCondition
    /\ validation_results' = Append(validation_results, validation_result)
    /\ cursor' = cursor + 1
    /\ pc' = "for"
    /\ UNCHANGED << toolVars, passes, script, tasks, file, idx, n_tries, validation_result,
                    validations, revalidate, attemptVars, definite >>

\* validate.py 126-131: after the last task the output file is written.
WriteFile ==
    /\ script = "validate"
    /\ pc = "for"
    /\ cursor = Len(tasks)
    /\ file' = Some(validation_results)
    /\ pc' = "done"
    /\ UNCHANGED << toolVars, passes, script, tasks, cursor, idx, n_tries, validation_result,
                    validation_results, validations, revalidate, attemptVars,
                    definite >>

\* The process of the script is killed: what it held in memory is lost, the
\* file stays as it is.
Kill ==
    /\ pc \notin {"done", "killed"}
    /\ pc' = "killed"
    /\ validation_result' = EmptyResult(idx)
    /\ validation_results' = << >>
    /\ validations' = << >>
    /\ revalidate' = << >>
    /\ n_tries' = 0
    /\ definite' = {}
    /\ ExitLocals
    /\ raised' = None
    /\ UNCHANGED << toolVars, passes, script, tasks, file, cursor, idx >>


\* ------------------------------------------------------- revalidate.py
\* revalidate.py 104-118: the stored record of a task has to be repaired.
NeedsRevalidate(result) ==
    \/ IsNone(result.error_messages)
    \/ IsNone(result.error_positions)
    \/ IsNone(result.correctness)
    \/ Len(Get(result.error_messages)) # expected_len
    \/ Len(Get(result.error_positions)) # expected_len
    \/ Len(Get(result.correctness)) # expected_len
    \/ \E j \in 1..Len(Get(result.correctness)) : IsNone(Get(result.correctness)[j])

RECURSIVE Selected(_, _)
\* revalidate.py 100-118: the indices (0-based) of the records to repair, in order.
Selected(vals, n) ==
    IF n = 0 THEN << >>
    ELSE IF NeedsRevalidate(vals[n])
         THEN Append(Selected(vals, n - 1), n - 1)
         ELSE Selected(vals, n - 1)

\* A record as check_context_proofs returns it, from the entries of its candidates.
RecordOf(i, entries) ==
    [statement_idx |-> i,
     correctness |-> Some([j \in 1..Len(entries) |-> entries[j].correct]),
     error_positions |-> Some([j \in 1..Len(entries) |-> entries[j].error_position]),
     error_messages |-> Some([j \in 1..Len(entries) |-> entries[j].error_message]),
     compiled_line_counts |-> Some([j \in 1..Len(entries) |-> entries[j].compiled])]

FailEntry ==
    [correct |-> Some(FALSE), error_message |-> Some("first"),
     error_position |-> None, compiled |-> Some(0)]

\* The records an earlier run can have stored for task i: nothing validated
\* (every attempt raised), or a returned list: every candidate correct for a
\* task with one candidate or with expected_len of them, failures followed by
\* an indeterminate entry for the other tasks.
StoredRecords(task, i) ==
    LET n == Len(task.candidates)
    IN  { EmptyResult(i),
          IF n = 1 \/ n = expected_len
          THEN RecordOf(i, [j \in 1..n |-> PassEntry(task.candidates[j])])
          ELSE RecordOf(i, [j \in 1..n |-> IF j < n THEN FailEntry ELSE IndeterminateEntry]) }

RECURSIVE RepairCands(_, _, _)
RepairCands(ts, vals, n) ==
    IF n = 0 THEN 0
    ELSE (IF NeedsRevalidate(vals[n]) THEN Len(ts[n].candidates) ELSE 0)
         + RepairCands(ts, vals, n - 1)

\* revalidate.py 88-98: a generation file and the validation file stored for it.
InitRevalidate ==
    /\ ToolsIdle
    /\ passes = 0
    /\ script = "revalidate"
    /\ pc = "scan"
    /\ tasks \in [1..NTasks -> TaskPool \cup {FullTask}]
    /\ \E vals \in [1..NTasks -> UNION { StoredRecords(t, i) : t \in TaskPool \cup {FullTask}, i \in 0..(NTasks - 1) }] :
          /\ \A n \in 1..NTasks : vals[n] \in StoredRecords(tasks[n], n - 1)
          /\ RepairCands(tasks, vals, NTasks) <= MaxRepairCands
          /\ file = Some(vals)
    /\ cursor = 0 /\ idx = 0 /\ n_tries = 0
    /\ validation_result = EmptyResult(0)
    /\ validation_results = << >>
    /\ validations = << >>
    /\ revalidate = << >>
    /\ definite = {}
    /\ NoAttempt

\* revalidate.py 95-118: the validation file is loaded and scanned.
Scan ==
    /\ script = "revalidate"
    /\ pc = "scan"
    /\ validations' = Get(file)
    /\ revalidate' = Selected(Get(file), Len(Get(file)))
    /\ pc' = "for"
    /\ UNCHANGED << toolVars, passes, script, tasks, file, cursor, idx, n_tries, validation_result,
                    validation_results, attemptVars, definite >>

\* revalidate.py 121-135: the next selected task.
ForNextRepair ==
    /\ script = "revalidate"
    /\ pc = "for"
    /\ cursor < Len(revalidate)
    /\ idx' = revalidate[cursor + 1]
    /\ validation_result' = EmptyResult(idx')
    /\ n_tries' = 0
    /\ definite' =
           LET stored == validations[idx' + 1].correctness
           IN  IF IsNone(stored) THEN {}
               ELSE { j \in 1..Len(Get(stored)) : Get(stored)[j] = Some(FALSE) }
    /\ pc' = "while"
    /\ UNCHANGED << toolVars, passes, script, tasks, file, cursor, validation_results, validations,
                    revalidate, attemptVars >>

\* Mutant of ReplaceResult: the record is stored at the position of the loop.
ReplaceResult_AtCursor ==
    /\ script = "revalidate"
    /\ pc = "while"
    /\ ~WhileCondition
    /\ validations' = [validations EXCEPT ![cursor + 1] = validation_result]
    /\ cursor' = cursor + 1
    /\ pc' = "for"
    /\ UNCHANGED << toolVars, passes, script, tasks, file, idx, n_tries, validation_result,
                    validation_results, revalidate, attemptVars, definite >>

\* revalidate.py 137 and 146-154: the while loop ends and the record replaces
\* the stored one.
ReplaceResult ==
    /\ script = "revalidate"
    /\ pc = "while"
    /\ ~WhileCondition
    /\ validations' = [validations EXCEPT ![idx + 1] = validation_result]
    /\ cursor' = cursor + 1
    /\ pc' = "for"
    /\ UNCHANGED << toolVars, passes, script, tasks, file, idx, n_tries, validation_result,
                    validation_results, revalidate, attemptVars, definite >>

\* revalidate.py 156-158: after the last selected task the file is rewritten.
RewriteFile ==
    /\ script = "revalidate"
    /\ pc = "for"
    /\ cursor = Len(revalidate)
    /\ file' = Some(validations)
    /\ pc' = "done"
    /\ UNCHANGED << toolVars, passes, script, tasks, cursor, idx, n_tries, validation_result,
                    validation_results, validations, revalidate, attemptVars,
                    definite >>

\* revalidate.py 88-98: the script is run a second time, on the file it has
\* written.
RunAgain ==
    /\ script = "revalidate"
    /\ pc = "done"
    /\ passes = 0
    /\ passes' = passes + 1
    /\ pc' = "scan"
    /\ cursor' = 0 /\ idx' = 0 /\ n_tries' = 0
    /\ validation_result' = EmptyResult(0)
    /\ validations' = << >>
    /\ revalidate' = << >>
    /\ definite' = {}
    /\ ExitLocals
    /\ raised' = None
    /\ UNCHANGED << toolVars, script, tasks, file, validation_results >>

Init == InitValidate \/ InitRevalidate

Next ==
    \/ ForNext
    \/ Scan
    \/ ForNextRepair
    \/ ReplaceResult
    \/ RewriteFile
    \/ StartAttempt
    \/ CheckProof
    \/ Return
    \/ AppendResult
    \/ WriteFile
    \/ Kill

Spec == Init /\ [][Next]_vars

\* revalidate.py run to its end, more than once, on one validation file.
NextAgain ==
    \/ Scan
    \/ ForNextRepair
    \/ StartAttempt
    \/ CheckProof
    \/ Return
    \/ ReplaceResult
    \/ RewriteFile
    \/ RunAgain

InitAgain ==
    /\ InitRevalidate
    /\ RepairCands(tasks, Get(file), NTasks) <= MaxAgainCands

SpecAgain == InitAgain /\ [][NextAgain]_vars

\* ---------------------------------------------------------- organzie.py
\* validate.py and revalidate.py are not running.
PipelineIdle ==
    /\ passes = 0
    /\ script = "none"
    /\ pc = "idle"
    /\ tasks = << >>
    /\ file = None
    /\ cursor = 0 /\ idx = 0 /\ n_tries = 0
    /\ validation_result = EmptyResult(0)
    /\ validation_results = << >>
    /\ validations = << >>
    /\ revalidate = << >>
    /\ definite = {}
    /\ NoAttempt

\* The problems of the dataset file (organzie.py 20).
Problems ==
    << [theoremName |-> "a", theoremStatement |-> <<"t">>],
       [theoremName |-> "b", theoremStatement |-> <<"u">>] >>

\* The proof text of the j-th candidate of a generation record.
ProofAt(j) == IF j % 2 = 1 THEN <<"p">> ELSE <<"p", NL, "q">>

\* generate.py 376-385: the record of a task with n candidates; the telemetry
\* arrays are as long as the candidate list.
GenerationRecord(i, n) ==
    [statement_idx |-> i,
     candidates |-> [j \in 1..n |-> ProofAt(j)],
     durations |-> [j \in 1..n |-> j],
     prompt_tokens |-> [j \in 1..n |-> 7],
     completion_tokens |-> [j \in 1..n |-> 2 * j],
     total_tokens |-> [j \in 1..n |-> 7 + 2 * j]]

\* The j-th entry of a stored validation array.
CorrectnessAt(j) == IF j = 1 THEN Some(TRUE) ELSE IF j = 3 THEN None ELSE Some(FALSE)
CompiledAt(j) == IF j = 1 THEN Some(1) ELSE IF j = 3 THEN None ELSE Some(j - 2)
MessageAt(j) == IF j = 1 \/ j = 3 THEN None ELSE Some("first")
PositionAt(j) == IF j = 1 \/ j = 3 THEN None ELSE Some([start_pos |-> Pos(j, 4), end_pos |-> Pos(j, 10)])

\* A validation record whose four arrays have the given lengths.
ValidationRecord(i, lc, ll, lm, lp) ==
    [statement_idx |-> i,
     correctness |-> Some([j \in 1..lc |-> CorrectnessAt(j)]),
     error_positions |-> Some([j \in 1..lp |-> PositionAt(j)]),
     error_messages |-> Some([j \in 1..lm |-> MessageAt(j)]),
     compiled_line_counts |-> Some([j \in 1..ll |-> CompiledAt(j)])]

\* The array lengths of the validation records of a file: one length for the
\* four arrays, or one array that differs from the three others.
ValidationShapes ==
    { sh \in [1..4 -> 0..MaxValLen] :
        \E a \in 1..4 : \A b, c \in (1..4) \ {a} : sh[b] = sh[c] }

\* The generation files: a record for some of the problems (organzie.py 36-40).
GenerationFiles ==
    UNION { { g \in [present -> 0..MaxMergeCands] : TRUE } : present \in SUBSET (0..(Len(Problems) - 1)) }

\* The validation files: for some of the problems, the all-none record or a
\* record of lists (organzie.py 43-47).
ValidationChoices(i) ==
    { EmptyResult(i) } \cup
    { ValidationRecord(i, sh[1], sh[2], sh[3], sh[4]) : sh \in ValidationShapes }

\* combine_files 20-53: the files are loaded and indexed by statement_idx.
InitCombine ==
    /\ PipelineIdle
    /\ MetricsIdle
    /\ ScriptsIdle
    /\ mpc = "combine"
    /\ problems_data = Problems
    /\ \E g \in GenerationFiles :
          generation_results = [i \in DOMAIN g |-> GenerationRecord(i, g[i])]
    /\ \E present \in SUBSET (0..(Len(Problems) - 1)) :
          validation_index \in [present -> UNION { ValidationChoices(i) : i \in present }]
          /\ \A i \in present : validation_index[i].statement_idx = i
    /\ stmt_idx = 0
    /\ combined_data = << >>
    /\ warnings = << >>
    /\ output_file = None
    /\ merge_raised = None

\* organzie.py 67-90: the entry of candidate i (1-based here) of a task.
Candidate(gen_result, val_result, i) ==
    IF IsNone(val_result.correctness)
    THEN [proof |-> gen_result.candidates[i],
          is_correct |-> None,
          duration |-> gen_result.durations[i],
          prompt_tokens |-> gen_result.prompt_tokens[i],
          completion_tokens |-> gen_result.completion_tokens[i],
          total_tokens |-> gen_result.total_tokens[i],
          compiled_lines |-> None,
          error_message |-> None,
          error_position |-> None]
    ELSE [proof |-> gen_result.candidates[i],
          is_correct |-> Get(val_result.correctness)[i],
          duration |-> gen_result.durations[i],
          prompt_tokens |-> gen_result.prompt_tokens[i],
          completion_tokens |-> gen_result.completion_tokens[i],
          total_tokens |-> gen_result.total_tokens[i],
          compiled_lines |-> Get(val_result.compiled_line_counts)[i],
          error_message |-> Get(val_result.error_messages)[i],
          error_position |-> Get(val_result.error_positions)[i]]

\* Mutant of SubscriptRaises: any difference of the lengths raises.
SubscriptRaises_Strict(gen_result, val_result) ==
    /\ ~IsNone(val_result.correctness)
    /\ \/ Len(gen_result.candidates) # Len(Get(val_result.correctness))
       \/ Len(gen_result.candidates) # Len(Get(val_result.compiled_line_counts))
       \/ Len(gen_result.candidates) # Len(Get(val_result.error_messages))
       \/ Len(gen_result.candidates) # Len(Get(val_result.error_positions))

\* Mutant of SubscriptRaises: a correctness of None is subscripted too.
SubscriptRaises_OnNone(gen_result, val_result) ==
    \/ IsNone(val_result.correctness) /\ Len(gen_result.candidates) > 0
    \/ /\ ~IsNone(val_result.correctness)
       /\ \E i \in 1..Len(gen_result.candidates) :
             \/ i > Len(Get(val_result.correctness))
             \/ i > Len(Get(val_result.compiled_line_counts))
             \/ i > Len(Get(val_result.error_messages))
             \/ i > Len(Get(val_result.error_positions))

\* organzie.py 82-89: an index of range(n_candidates) is out of range for a
\* validation array, and the subscript raises IndexError.
SubscriptRaises(gen_result, val_result) ==
    /\ ~IsNone(val_result.correctness)
    /\ \E i \in 1..Len(gen_result.candidates) :
          \/ i > Len(Get(val_result.correctness))
          \/ i > Len(Get(val_result.compiled_line_counts))
          \/ i > Len(Get(val_result.error_messages))
          \/ i > Len(Get(val_result.error_positions))

\* organzie.py 63-98: the entry of a problem.
ResultEntry(problem, gen_result, val_result) ==
    [theoremStatement |-> problem.theoremStatement,
     theoremName |-> problem.theoremName,
     candidates |-> [i \in 1..Len(gen_result.candidates) |->
                        Candidate(gen_result, val_result, i)]]

\* Mutant of DictSet: the dict is replaced by the new item.
DictSet_Replace(d, key, value) == [n \in {key} |-> value]

\* organzie.py 94: dict assignment.
DictSet(d, key, value) ==
    [n \in (DOMAIN d) \cup {key} |-> IF n = key THEN value ELSE d[n]]

\* organzie.py 57-100: one pass of the loop over the problems.
CombineProblem ==
    /\ mpc = "combine"
    /\ stmt_idx < Len(problems_data)
    /\ LET problem == problems_data[stmt_idx + 1]
       IN  IF stmt_idx \in DOMAIN generation_results /\ stmt_idx \in DOMAIN validation_index
           THEN LET gen_result == generation_results[stmt_idx]
                    val_result == validation_index[stmt_idx]
                IN  IF SubscriptRaises(gen_result, val_result)
                    THEN /\ merge_raised' = Some("IndexError")
                         /\ mpc' = "raised"
                         /\ UNCHANGED << stmt_idx, combined_data, warnings >>
                    ELSE /\ combined_data' =
                               DictSet(combined_data, problem.theoremName,
                                       ResultEntry(problem, gen_result, val_result))
                         /\ stmt_idx' = stmt_idx + 1
                         /\ UNCHANGED << mpc, warnings, merge_raised >>
           ELSE /\ warnings' = Append(warnings, stmt_idx)
                /\ stmt_idx' = stmt_idx + 1
                /\ UNCHANGED << mpc, combined_data, merge_raised >>
    /\ UNCHANGED << problems_data, generation_results, validation_index, output_file >>
    /\ UNCHANGED << metricVars, scriptVars, passes, script, pc, tasks, file, cursor, idx, n_tries,
                    validation_result, validation_results, validations,
                    revalidate, attemptVars, definite >>

\* organzie.py 102-105: the combined data are written.
WriteCombined ==
    /\ mpc = "combine"
    /\ stmt_idx = Len(problems_data)
    /\ output_file' = Some(combined_data)
    /\ mpc' = "statistics"
    /\ UNCHANGED << problems_data, generation_results, validation_index, stmt_idx,
                    combined_data, warnings, merge_raised >>
    /\ UNCHANGED << metricVars, scriptVars, passes, script, pc, tasks, file, cursor, idx, n_tries,
                    validation_result, validation_results, validations,
                    revalidate, attemptVars, definite >>

RECURSIVE SumOver(_, _)
\* sum(f[x] for x in S)
SumOver(f, S) ==
    IF S = {} THEN 0
    ELSE LET x == CHOOSE y \in S : TRUE IN f[x] + SumOver(f, S \ {x})

\* organzie.py 110: the candidates of the combined data.
total_candidates ==
    SumOver([n \in DOMAIN combined_data |-> Len(combined_data[n].candidates)],
            DOMAIN combined_data)

\* organzie.py 107-120: the statistics are printed; the success rate divides
\* by the number of candidates.
Statistics ==
    /\ mpc = "statistics"
    /\ IF total_candidates = 0
       THEN merge_raised' = Some("ZeroDivisionError") /\ mpc' = "raised"
       ELSE merge_raised' = None /\ mpc' = "done"
    /\ UNCHANGED << problems_data, generation_results, validation_index, stmt_idx,
                    combined_data, warnings, output_file >>
    /\ UNCHANGED << metricVars, scriptVars, passes, script, pc, tasks, file, cursor, idx, n_tries,
                    validation_result, validation_results, validations,
                    revalidate, attemptVars, definite >>

NextCombine ==
    \/ CombineProblem
    \/ WriteCombined
    \/ Statistics

SpecCombine == InitCombine /\ [][NextCombine]_vars

\* --------------------------------------------------------- pass_at_k.py
\* Numbers: the floats of pass_at_k.py are modelled by exact fractions.
RECURSIVE GCD(_, _)
GCD(a, b) == IF b = 0 THEN a ELSE GCD(b, a % b)
Abs(x) == IF x < 0 THEN 0 - x ELSE x
\* The fraction n/d (d > 0) in lowest terms.
Frac(n, d) ==
    LET g == GCD(Abs(n), d)
    IN  [num |-> n \div g, den |-> d \div g]
Zero == [num |-> 0, den |-> 1]
One == [num |-> 1, den |-> 1]
FracAdd(a, b) == Frac(a.num * b.den + b.num * a.den, a.den * b.den)
FracSub(a, b) == Frac(a.num * b.den - b.num * a.den, a.den * b.den)
\* a / n for an integer n > 0
FracDivInt(a, n) == Frac(a.num, a.den * n)
FracTimesInt(a, n) == Frac(a.num * n, a.den)

RECURSIVE comb(_, _)
\* math.comb(n, k) for n, k >= 0
comb(n, kk) ==
    IF kk > n THEN 0
    ELSE IF kk = 0 THEN 1
    ELSE (n * comb(n - 1, kk - 1)) \div kk

\* The candidates of the result files: a correct one, one with a diagnostic
\* after its first line, and one whose check was indeterminate.
CandidatePool ==
    { [proof |-> <<"p">>, is_correct |-> Some(TRUE), compiled_lines |-> Some(1)],
      [proof |-> <<"p", NL, "q">>, is_correct |-> Some(FALSE), compiled_lines |-> Some(1)],
      [proof |-> <<"p", NL, "q">>, is_correct |-> None, compiled_lines |-> None] }

CandidateLists == UNION { [1..n -> CandidatePool] : n \in 0..MaxMetricCands }

\* pass_at_k.py 41-47: the result of a theorem.
TheoremResults ==
    { [category |-> a[1], brute_force |-> a[2], candidates |-> cs] :
        a \in { <<"unknown", FALSE>>, <<"algebra", TRUE>> }, cs \in CandidateLists }

RECURSIVE ResultListsOf(_, _)
\* The lists of n theorem results with at most budget candidates together.
ResultListsOf(n, budget) ==
    IF n = 0 THEN { << >> }
    ELSE UNION { { << r >> \o rest : rest \in ResultListsOf(n - 1, budget - Len(r.candidates)) } :
                 r \in { tr \in TheoremResults : Len(tr.candidates) <= budget } }

ResultLists == UNION { ResultListsOf(n, MaxMetricCands) : n \in 0..MaxResults }

\* Mutant of Truthy: an is_correct of None counts as correct.
Truthy_NotFalse(x) == x # Some(FALSE)

\* The truth value of c.get('is_correct', False) (pass_at_k.py 58, 82).
Truthy(x) == x = Some(TRUE)

\* Mutant of compute_pass_at_k: the quotient is returned, not its complement.
compute_pass_at_k_Quotient(cands, k0) ==
    IF cands = << >> THEN Zero
    ELSE LET correct_count == Cardinality({ j \in 1..Len(cands) : Truthy(cands[j].is_correct) })
             n == Len(cands)
             kk == IF k0 > n THEN n ELSE k0
         IN  IF correct_count = 0 THEN Zero
             ELSE IF correct_count >= kk THEN One
             ELSE Frac(comb(n - correct_count, kk), comb(n, kk))

\* pass_at_k.py 52-78. After the clamp of k to n, math.comb(n, k) is at least
\* 1 and no exception reaches the except clause of line 77.
compute_pass_at_k(cands, k0) ==
    IF cands = << >> THEN Zero
    ELSE LET correct_count == Cardinality({ j \in 1..Len(cands) : Truthy(cands[j].is_correct) })
             n == Len(cands)
             kk == IF k0 > n THEN n ELSE k0
         IN  IF correct_count = 0 THEN Zero
             ELSE IF correct_count >= kk THEN One
             ELSE FracSub(One, Frac(comb(n - correct_count, kk), comb(n, kk)))

\* pass_at_k.py 80-82
has_correct_proof(cands) == \E j \in 1..Len(cands) : Truthy(cands[j].is_correct)

\* str.count('\n')
RECURSIVE count_newlines(_)
count_newlines(text) ==
    IF text = << >> THEN 0
    ELSE (IF Head(text) = NL THEN 1 ELSE 0) + count_newlines(Tail(text))

RECURSIVE compiled_lines_count(_)
\* pass_at_k.py 116-119
compiled_lines_count(cands) ==
    IF cands = << >> THEN 0
    ELSE (IF IsNone(Head(cands).compiled_lines) THEN 0 ELSE Get(Head(cands).compiled_lines))
         + compiled_lines_count(Tail(cands))

RECURSIVE total_lines_count(_)
\* pass_at_k.py 117-120
total_lines_count(cands) ==
    IF cands = << >> THEN 0
    ELSE (IF IsNone(Head(cands).compiled_lines) THEN 0 ELSE count_newlines(Head(cands).proof) + 1)
         + total_lines_count(Tail(cands))

\* pass_at_k.py 122
ratio(r) ==
    IF total_lines_count(r.candidates) > 0
    THEN Frac(compiled_lines_count(r.candidates), total_lines_count(r.candidates))
    ELSE Zero

RECURSIVE SumFrac(_)
\* sum(...) of a sequence of numbers
SumFrac(fs) ==
    IF fs = << >> THEN Zero ELSE FracAdd(Head(fs), SumFrac(Tail(fs)))

\* Mutant of avg_compiled_ratio: one ratio of the sums over the group.
avg_compiled_ratio_Global(group_results) ==
    LET compiled == SumFrac([j \in 1..Len(group_results) |->
                                Frac(compiled_lines_count(group_results[j].candidates), 1)])
        total == SumFrac([j \in 1..Len(group_results) |->
                             Frac(total_lines_count(group_results[j].candidates), 1)])
    IN  IF total.num > 0 THEN Frac(compiled.num, total.num) ELSE Zero

\* pass_at_k.py 113-125
avg_compiled_ratio(group_results) ==
    IF Len(group_results) > 0
    THEN FracDivInt(SumFrac([j \in 1..Len(group_results) |-> ratio(group_results[j])]),
                    Len(group_results))
    ELSE Zero

pass_at_1(r) == compute_pass_at_k(r.candidates, 1)
pass_at_5(r) == compute_pass_at_k(r.candidates, 5)

\* pass_at_k.py 106-138 (and 141-172, 175-206, 209-240): the metrics of a group.
GroupMetrics(group_type, group_name, group_results) ==
    LET correct_count == Cardinality({ j \in 1..Len(group_results) :
                                          has_correct_proof(group_results[j].candidates) })
        total_count == Len(group_results)
    IN  [group_type |-> group_type,
         group_name |-> group_name,
         total_theorems |-> total_count,
         theorems_with_correct_proof |-> correct_count,
         percentage_with_correct_proof |-> FracTimesInt(Frac(correct_count, total_count), 100),
         pass_at_1 |-> FracDivInt(SumFrac([j \in 1..total_count |-> pass_at_1(group_results[j])]),
                                  total_count),
         pass_at_5 |-> FracDivInt(SumFrac([j \in 1..total_count |-> pass_at_5(group_results[j])]),
                                  total_count),
         avg_compiled_ratio |-> avg_compiled_ratio(group_results)]

RECURSIVE Categories(_)
\* pass_at_k.py 96-100: the keys of analyses['by_category'], in insertion order.
Categories(rs) ==
    IF rs = << >> THEN << >>
    ELSE LET before == Categories(SubSeq(rs, 1, Len(rs) - 1))
             category == rs[Len(rs)].category
         IN  IF \E j \in 1..Len(before) : before[j] = category
             THEN before ELSE Append(before, category)

\* pass_at_k.py 84-242
analyze_results(rs) ==
    LET all == IF rs # << >> THEN << GroupMetrics("all_statements", "all", rs) >> ELSE << >>
        cats == Categories(rs)
        by_category == [j \in 1..Len(cats) |->
                           GroupMetrics("category", cats[j],
                                        SelectSeq(rs, LAMBDA r : r.category = cats[j]))]
        bf_true == SelectSeq(rs, LAMBDA r : r.brute_force)
        bf_false == SelectSeq(rs, LAMBDA r : ~r.brute_force)
    IN  all \o by_category
        \o (IF bf_true # << >> THEN << GroupMetrics("brute_force", "true", bf_true) >> ELSE << >>)
        \o (IF bf_false # << >> THEN << GroupMetrics("brute_force", "false", bf_false) >> ELSE << >>)

\* pass_at_k.py 254, 267: the results of a model are loaded.
InitMetrics ==
    /\ PipelineIdle
    /\ MergeIdle
    /\ ScriptsIdle
    /\ results \in ResultLists
    /\ candidates = << >>
    /\ k = 0
    /\ pass_at_k = None
    /\ metrics_data = None

\* A call compute_pass_at_k(r['candidates'], k) for a theorem result r.
CallComputePassAtK ==
    /\ pass_at_k = None /\ metrics_data = None
    /\ \E j \in 1..Len(results), k0 \in 1..MaxK :
          /\ candidates' = results[j].candidates
          /\ k' = k0
          /\ pass_at_k' = Some(compute_pass_at_k(results[j].candidates, k0))
    /\ UNCHANGED << results, metrics_data >>
    /\ UNCHANGED << mergeVars, scriptVars, passes, script, pc, tasks, file, cursor, idx, n_tries,
                    validation_result, validation_results, validations,
                    revalidate, attemptVars, definite >>

\* pass_at_k.py 269: analyze_results(results, model_name)
AnalyzeResults ==
    /\ pass_at_k = None /\ metrics_data = None
    /\ metrics_data' = Some(analyze_results(results))
    /\ UNCHANGED << results, candidates, k, pass_at_k >>
    /\ UNCHANGED << mergeVars, scriptVars, passes, script, pc, tasks, file, cursor, idx, n_tries,
                    validation_result, validation_results, validations,
                    revalidate, attemptVars, definite >>

NextMetrics ==
    \/ CallComputePassAtK
    \/ AnalyzeResults

SpecMetrics == InitMetrics /\ [][NextMetrics]_vars

\* ------------------------------------------------ scripts/find_longest.py
\* The theorem names of the result files, in the order of Python's string
\* comparison.
TheoremNames == << "A", "B" >>

NameRank(name) == CHOOSE i \in 1..Len(TheoremNames) : TheoremNames[i] = name

Cand(ok, text) == [is_correct |-> ok, proof |-> text]

\* The candidates of one theorem of a result file.
LongestPool ==
    { << Cand(FALSE, << "p", "q", "r" >>) >>,
      << Cand(TRUE, << >>) >>,
      << Cand(TRUE, << "p" >>), Cand(TRUE, << "q" >>) >>,
      << Cand(TRUE, << "q" >>) >>,
      << Cand(TRUE, << "p", "q" >>), Cand(FALSE, << "p", "q", "r" >>) >>,
      << Cand(TRUE, << >>), Cand(TRUE, << "p", "q", "r" >>) >> }

\* data['results'] of one file: theorem name -> theorem data, in the order of
\* the file; a name is a key once.
ResultsOfFile ==
    LET names == { TheoremNames[i] : i \in 1..Len(TheoremNames) }
        items == { [theorem_name |-> n, candidates |-> c] :
                     n \in names, c \in LongestPool }
    IN  { << >> }
        \cup { << x >> : x \in items }
        \cup { xy \in { << x, y >> : x \in items, y \in items } :
                   xy[1].theorem_name # xy[2].theorem_name }

RECURSIVE TotalEntries(_)
TotalEntries(fs) ==
    IF fs = << >> THEN 0 ELSE Len(Head(fs)) + TotalEntries(Tail(fs))

RECURSIVE DirectoriesOf(_, _)
DirectoriesOf(n, budget) ==
    IF n = 0 THEN { << >> }
    ELSE UNION { { << f >> \o rest : rest \in DirectoriesOf(n - 1, budget - Len(f)) } :
                 f \in { g \in ResultsOfFile : Len(g) <= budget } }

\* The directories with at least one .jsonl file (find_longest.py 23-27).
Directories(maxFiles) == UNION { DirectoriesOf(n, MaxEntries) : n \in 1..maxFiles }

\* find_longest.py 50-62: the longest correct proof of a theorem; a proof
\* replaces the one kept only when it is strictly longer.
RECURSIVE LongestFrom(_, _, _)
LongestFrom(cands, i, best) ==
    IF i > Len(cands) THEN best
    ELSE IF cands[i].is_correct /\ Len(cands[i].proof) > best.longest_proof_length
         THEN LongestFrom(cands, i + 1,
                          [longest_correct_proof |-> cands[i].proof,
                           longest_proof_length |-> Len(cands[i].proof),
                           longest_proof_info |-> Some(i)])
         ELSE LongestFrom(cands, i + 1, best)

Longest(cands) ==
    LongestFrom(cands, 1, [longest_correct_proof |-> << >>,
                           longest_proof_length |-> 0,
                           longest_proof_info |-> None])

\* find_longest.py 66-76: the entry of a theorem of the file at position f.
TheoremInfo(name, best, f) ==
    [theorem_name |-> name,
     proof |-> best.longest_correct_proof,
     proof_length |-> best.longest_proof_length,
     proof_info |-> best.longest_proof_info,
     source_file |-> f]

\* The comparison a < b of two heap items (longest_proof_length, theorem_name,
\* theorem_info): the first pair of unequal components decides, and the
\* third components are dicts, which have no order: None is the TypeError.
ItemLess(a, b) ==
    IF a.proof_length # b.proof_length THEN Some(a.proof_length < b.proof_length)
    ELSE IF a.theorem_name # b.theorem_name
         THEN Some(NameRank(a.theorem_name) < NameRank(b.theorem_name))
         ELSE IF a = b THEN Some(FALSE) ELSE None

Swap(heap, i, j) == [heap EXCEPT ![i] = heap[j], ![j] = heap[i]]

\* heapq's siftdown, positions from 1: the item at pos moves up while it is
\* less than its parent; a comparison that raises leaves the list as it is.
RECURSIVE siftdown(_, _, _)
siftdown(heap, startpos, pos) ==
    IF pos <= startpos THEN [heap |-> heap, raised |-> FALSE]
    ELSE LET parentpos == pos \div 2
             cmp == ItemLess(heap[pos], heap[parentpos])
         IN  IF IsNone(cmp) THEN [heap |-> heap, raised |-> TRUE]
             ELSE IF ~Get(cmp) THEN [heap |-> heap, raised |-> FALSE]
             ELSE siftdown(Swap(heap, pos, parentpos), startpos, parentpos)

\* heapq's siftup: the item at pos moves down to a leaf, along the smaller
\* children, and is then sifted down from there.
RECURSIVE siftup_from(_, _, _)
siftup_from(heap, startpos, pos) ==
    IF pos > Len(heap) \div 2 THEN siftdown(heap, startpos, pos)
    ELSE LET left == 2 * pos
             cmp == IF left + 1 <= Len(heap)
                    THEN ItemLess(heap[left], heap[left + 1])
                    ELSE Some(TRUE)
         IN  IF IsNone(cmp) THEN [heap |-> heap, raised |-> TRUE]
             ELSE LET childpos == IF Get(cmp) THEN left ELSE left + 1
                  IN  siftup_from(Swap(heap, pos, childpos), startpos, childpos)

siftup(heap, pos) == siftup_from(heap, pos, pos)

\* heapq.heappush(heap, item)
heappush(heap, item) == siftdown(Append(heap, item), 1, Len(heap) + 1)

\* heapq.heapreplace(heap, item)
heapreplace(heap, item) == siftup([heap EXCEPT ![1] = item], 1)

\* find_longest.py 79-82: the heap keeps the top_k longest items.
HeapUpdate(heap, item, kk) ==
    IF Len(heap) < kk THEN heappush(heap, item)
    ELSE IF item.proof_length > heap[1].proof_length THEN heapreplace(heap, item)
    ELSE [heap |-> heap, raised |-> FALSE]

\* list.sort(key = proof_length, reverse = True): a stable sort.
RECURSIVE InsertDescending(_, _)
InsertDescending(sorted, x) ==
    IF sorted = << >> THEN << x >>
    ELSE IF Head(sorted).proof_length >= x.proof_length
         THEN << Head(sorted) >> \o InsertDescending(Tail(sorted), x)
         ELSE << x >> \o sorted

RECURSIVE SortDescending(_)
SortDescending(list) ==
    IF list = << >> THEN << >>
    ELSE InsertDescending(SortDescending(SubSeq(list, 1, Len(list) - 1)), list[Len(list)])

\* find_longest.py 20-33: the function is called on a directory with files.
InitLongest ==
    /\ PipelineIdle
    /\ MergeIdle
    /\ MetricsIdle
    /\ ExtractIdle
    /\ GenerateIdle
    /\ FalseAttemptsIdle
    /\ lpc = "files"
    /\ jsonl_files \in Directories(MaxFiles)
    /\ top_k \in 1..MaxTopK
    /\ file_pos = 0
    /\ theorem_pos = 0
    /\ min_heap = << >>
    /\ file_errors = {}
    /\ top_theorems = None

\* find_longest.py 45-82: one theorem of the current file.  An exception of
\* the heap leaves the file (90-92).
ProcessTheorem ==
    /\ lpc = "files"
    /\ file_pos < Len(jsonl_files)
    /\ theorem_pos < Len(jsonl_files[file_pos + 1])
    /\ LET theorem_data == jsonl_files[file_pos + 1][theorem_pos + 1]
           best == Longest(theorem_data.candidates)
           theorem_info == TheoremInfo(theorem_data.theorem_name, best, file_pos + 1)
           out == IF best.longest_proof_length > 0
                  THEN HeapUpdate(min_heap, theorem_info, top_k)
                  ELSE [heap |-> min_heap, raised |-> FALSE]
       IN  /\ min_heap' = out.heap
           /\ IF out.raised
              THEN /\ file_errors' = file_errors \cup { file_pos + 1 }
                   /\ file_pos' = file_pos + 1
                   /\ theorem_pos' = 0
              ELSE /\ theorem_pos' = theorem_pos + 1
                   /\ UNCHANGED << file_errors, file_pos >>
    /\ UNCHANGED << lpc, jsonl_files, top_k, top_theorems >>
    /\ UNCHANGED notLongestVars

\* find_longest.py 35: the theorems of the file are done, the next file.
NextFile ==
    /\ lpc = "files"
    /\ file_pos < Len(jsonl_files)
    /\ theorem_pos = Len(jsonl_files[file_pos + 1])
    /\ file_pos' = file_pos + 1
    /\ theorem_pos' = 0
    /\ UNCHANGED << lpc, jsonl_files, top_k, min_heap, file_errors, top_theorems >>
    /\ UNCHANGED notLongestVars

\* find_longest.py 95-100: the items of the heap, sorted by length.
ReturnTopTheorems ==
    /\ lpc = "files"
    /\ file_pos = Len(jsonl_files)
    /\ top_theorems' = Some(SortDescending(min_heap))
    /\ lpc' = "done"
    /\ UNCHANGED << jsonl_files, top_k, file_pos, theorem_pos, min_heap, file_errors >>
    /\ UNCHANGED notLongestVars

NextLongest ==
    \/ ProcessTheorem
    \/ NextFile
    \/ ReturnTopTheorems

SpecLongest == InitLongest /\ [][NextLongest]_vars

\* ------------------------------- generate.py, extract_proof_from_response
\* The backquote character, written "^" here: a TLA+ string cannot hold it.
BT == "^"
Fence == << BT, BT, BT >>

\* The lines a response of the model is made of: a fence, a fence with a
\* language tag, a fence followed by a blank, a proof line, an empty line and
\* a proof line behind ":= ", followed by a blank.
ResponseLines ==
    { Fence,
      Fence \o << "l" >>,
      Fence \o << " " >>,
      << "p" >>,
      << >>,
      << ":", "=", " ", "p", " " >> }

\* '\n'.join(lines)
RECURSIVE join(_)
join(ls) ==
    IF ls = << >> THEN << >>
    ELSE IF Len(ls) = 1 THEN ls[1]
    ELSE ls[1] \o << NL >> \o join(Tail(ls))

RECURSIVE ResponsesOf(_)
ResponsesOf(n) ==
    IF n = 1 THEN ResponseLines
    ELSE { l \o << NL >> \o rest : l \in ResponseLines, rest \in ResponsesOf(n - 1) }

\* The message contents extract_proof_from_response is given.
Responses == UNION { ResponsesOf(n) : n \in 1..MaxLines }

\* str.startswith
startswith(text, prefix) ==
    /\ Len(text) >= Len(prefix)
    /\ SubSeq(text, 1, Len(prefix)) = prefix

\* str.split('\n'): the pieces between the line breaks, the empty ones too.
RECURSIVE SplitAt(_, _, _, _)
SplitAt(text, i, cur, acc) ==
    IF i > Len(text) THEN Append(acc, cur)
    ELSE IF text[i] = NL
         THEN SplitAt(text, i + 1, << >>, Append(acc, cur))
         ELSE SplitAt(text, i + 1, Append(cur, text[i]), acc)

split(text) == SplitAt(text, 1, << >>, << >>)

Whitespace == { " ", NL }

RECURSIVE lstrip(_)
lstrip(text) ==
    IF text # << >> /\ Head(text) \in Whitespace THEN lstrip(Tail(text)) ELSE text

RECURSIVE rstrip(_)
rstrip(text) ==
    IF text # << >> /\ text[Len(text)] \in Whitespace
    THEN rstrip(SubSeq(text, 1, Len(text) - 1))
    ELSE text

\* str.strip()
strip(text) == rstrip(lstrip(text))

\* generate.py 94-97: the code block markers are removed.
Unfenced(proof) ==
    IF startswith(proof, Fence)
    THEN LET lines == split(proof)
         IN  IF Len(lines) > 1
             THEN IF strip(lines[Len(lines)]) = Fence
                  THEN join(SubSeq(lines, 2, Len(lines) - 1))
                  ELSE join(SubSeq(lines, 2, Len(lines)))
             ELSE proof
    ELSE proof

\* generate.py 100-101: the ":= " prefix is removed.
Unprefixed(proof) ==
    IF startswith(proof, << ":", "=", " " >>)
    THEN strip(SubSeq(proof, 4, Len(proof)))
    ELSE proof

extract_proof_from_response(r) == Unprefixed(Unfenced(r))

InitExtract ==
    /\ PipelineIdle
    /\ MergeIdle
    /\ MetricsIdle
    /\ LongestIdle
    /\ GenerateIdle
    /\ FalseAttemptsIdle
    /\ response \in Responses
    /\ extracted_proof = None

\* A call extract_proof_from_response(response).
ExtractProof ==
    /\ extracted_proof = None
    /\ extracted_proof' = Some(extract_proof_from_response(response))
    /\ UNCHANGED response
    /\ UNCHANGED notExtractVars

NextExtract == ExtractProof

SpecExtract == InitExtract /\ [][NextExtract]_vars

\* ------------------------------------------------ generate.py, generate
\* response.usage of a completion.
Usage(p, c) == [prompt_tokens |-> p, completion_tokens |-> c, total_tokens |-> p + c]

Pending == [kind |-> "pending"]

\* A timed_completion call that raised: gather(return_exceptions=True) hands
\* the exception over as the result.
ExceptionResult == [kind |-> "exception"]

\* generate.py 141-152: the dict timed_completion returns.  For a failure the
\* response is the exception; otherwise it has a message content, a text or
\* None, and a usage, or None for a provider that sends none.
Completion(ok, d, content, usage) ==
    [kind |-> "dict", success |-> ok, duration |-> d, content |-> content,
     usage |-> usage]

\* What a timed_completion call can give.  With a key of gen_config missing
\* (generate.py 107-111, before the try) the call raises; otherwise every
\* exception of the provider is caught and reported.
RequestResults(config) ==
    IF ~ config.complete THEN { ExceptionResult }
    ELSE { Completion(FALSE, 1, None, None),
           Completion(TRUE, 2, None, None),
           Completion(TRUE, 2, None, Some(Usage(5, 0))),
           Completion(TRUE, 2, Some(join(<< Fence \o << "l" >>, << "p" >>, Fence >>)),
                      Some(Usage(5, 2))),
           Completion(TRUE, 3, Some(<< "q" >>), Some(Usage(5, 1))),
           Completion(TRUE, 2, Some(<< "q" >>), None) }

Slot(c, d, p, ct, t) ==
    [raises |-> FALSE, candidate |-> c, duration |-> d, prompt_tokens |-> p,
     completion_tokens |-> ct, total_tokens |-> t]

\* An attribute of None is read: AttributeError.
SlotRaises ==
    [raises |-> TRUE, candidate |-> << >>, duration |-> 0, prompt_tokens |-> 0,
     completion_tokens |-> 0, total_tokens |-> 0]

\* Mutant of SlotOf: a failed request is given the duration 0.
SlotOf_ZeroDuration(result) ==
    IF result.kind = "exception" THEN Slot(<< >>, 0, 0, 0, 0)
    ELSE IF ~ result.success THEN Slot(<< >>, 0, 0, 0, 0)
    ELSE IF result.content = None
         THEN IF result.usage = None
              THEN Slot(<< >>, result.duration, 0, 0, 0)
              ELSE Slot(<< >>, result.duration, Get(result.usage).prompt_tokens,
                        Get(result.usage).completion_tokens,
                        Get(result.usage).total_tokens)
    ELSE IF result.usage = None THEN SlotRaises
         ELSE Slot(extract_proof_from_response(Get(result.content)), result.duration,
                   Get(result.usage).prompt_tokens,
                   Get(result.usage).completion_tokens,
                   Get(result.usage).total_tokens)

\* generate.py 190-218: what one result of the batch appends to the lists
\* of the batch.
SlotOf(result) ==
    IF result.kind = "exception" THEN Slot(<< >>, 0, 0, 0, 0)
    ELSE IF ~ result.success THEN Slot(<< >>, result.duration, 0, 0, 0)
    ELSE IF result.content = None
         THEN IF result.usage = None
              THEN Slot(<< >>, result.duration, 0, 0, 0)
              ELSE Slot(<< >>, result.duration, Get(result.usage).prompt_tokens,
                        Get(result.usage).completion_tokens,
                        Get(result.usage).total_tokens)
    ELSE IF result.usage = None THEN SlotRaises
         ELSE Slot(extract_proof_from_response(Get(result.content)), result.duration,
                   Get(result.usage).prompt_tokens,
                   Get(result.usage).completion_tokens,
                   Get(result.usage).total_tokens)

\* generate.py 181
current_batch_size ==
    IF gen_config.batch_size < gen_config.n_candidates - batch_i
    THEN gen_config.batch_size
    ELSE gen_config.n_candidates - batch_i

\* generate.py 228-232: [""] * current_batch_size, [0] * current_batch_size
EmptySlots(n) == [j \in 1..n |-> Slot(<< >>, 0, 0, 0, 0)]

\* The results of the batch that starts at slot i0.
ResultsOfBatch(i0, n) == [j \in 1..n |-> requests[i0 + j]]

BatchRaises(rs) == \E j \in 1..Len(rs) : SlotOf(rs[j]).raises

\* Mutant of ProcessedBatch: the slots appended before the exception stay.
ProcessedBatch_KeepPartial(rs) ==
    IF BatchRaises(rs)
    THEN LET first == CHOOSE j \in 1..Len(rs) :
                          SlotOf(rs[j]).raises /\ \A h \in 1..(j - 1) : ~ SlotOf(rs[h]).raises
         IN  [j \in 1..(first - 1) |-> SlotOf(rs[j])] \o EmptySlots(Len(rs))
    ELSE [j \in 1..Len(rs) |-> SlotOf(rs[j])]

\* Mutant of ProcessedBatch: a batch that raised is filled up to batch_size.
ProcessedBatch_FullSize(rs) ==
    IF BatchRaises(rs) THEN EmptySlots(gen_config.batch_size)
    ELSE [j \in 1..Len(rs) |-> SlotOf(rs[j])]

\* generate.py 182-232: the slots a batch adds to the five lists.  The lists
\* of the batch are joined to them after the loop over the results, so an
\* exception in the loop leaves nothing of the batch but the empty slots.
ProcessedBatch(rs) ==
    IF BatchRaises(rs) THEN EmptySlots(Len(rs))
    ELSE [j \in 1..Len(rs) |-> SlotOf(rs[j])]

\* generate.py 188: the gather returns when every call of the batch has.
GatherDone ==
    \A j \in 1..current_batch_size : requests[batch_i + j] # Pending

\* Mutant of SleepNeeded: a sleep follows the last batch too.
SleepNeeded_Always == batch_i + gen_config.batch_size <= gen_config.n_candidates

\* generate.py 234
SleepNeeded == batch_i + gen_config.batch_size < gen_config.n_candidates

GenConfigs ==
    [n_candidates : 1..MaxNCandidates, batch_size : 1..MaxBatchSize, complete : BOOLEAN]

\* generate.py 166-173
InitGenerate ==
    /\ PipelineIdle
    /\ MergeIdle
    /\ MetricsIdle
    /\ LongestIdle
    /\ ExtractIdle
    /\ FalseAttemptsIdle
    /\ gpc = "for"
    /\ gen_config \in GenConfigs
    /\ batch_i = 0
    /\ requests = << >>
    /\ gen_candidates = << >>
    /\ durations = << >>
    /\ prompt_tokens = << >>
    /\ completion_tokens = << >>
    /\ total_tokens = << >>
    /\ generated = None
    /\ batch_log = << >>
    /\ events = << >>

\* generate.py 175-188: the calls of the next batch are made and gathered.
Dispatch ==
    /\ gpc = "for"
    /\ batch_i < gen_config.n_candidates
    /\ requests' = requests \o [j \in 1..current_batch_size |-> Pending]
    /\ events' = Append(events, "batch")
    /\ gpc' = "gather"
    /\ UNCHANGED << gen_config, batch_i, gen_candidates, durations, prompt_tokens,
                    completion_tokens, total_tokens, generated, batch_log >>
    /\ UNCHANGED notGenVars

\* generate.py 106-152: a timed_completion call returns or raises.
Complete ==
    /\ \E j \in 1..Len(requests) :
          /\ requests[j] = Pending
          /\ \E r \in RequestResults(gen_config) :
                requests' = [requests EXCEPT ![j] = r]
    /\ UNCHANGED << gpc, gen_config, batch_i, gen_candidates, durations, prompt_tokens,
                    completion_tokens, total_tokens, generated, batch_log, events >>
    /\ UNCHANGED notGenVars

\* generate.py 188-235: the gather returns, the results are processed, the
\* lists are extended; the sleep starts if a batch follows.
ProcessBatch ==
    /\ gpc = "gather"
    /\ GatherDone
    /\ LET rs == ResultsOfBatch(batch_i, current_batch_size)
           slots == ProcessedBatch(rs)
       IN  /\ gen_candidates' = gen_candidates \o [j \in 1..Len(slots) |-> slots[j].candidate]
           /\ durations' = durations \o [j \in 1..Len(slots) |-> slots[j].duration]
           /\ prompt_tokens' =
                 prompt_tokens \o [j \in 1..Len(slots) |-> slots[j].prompt_tokens]
           /\ completion_tokens' =
                 completion_tokens \o [j \in 1..Len(slots) |-> slots[j].completion_tokens]
           /\ total_tokens' =
                 total_tokens \o [j \in 1..Len(slots) |-> slots[j].total_tokens]
           /\ batch_log' = Append(batch_log, [start |-> batch_i,
                                              size |-> current_batch_size,
                                              raised |-> BatchRaises(rs)])
    /\ IF SleepNeeded
       THEN gpc' = "sleep" /\ events' = Append(events, "sleep")
       ELSE gpc' = "for" /\ events' = events
    /\ batch_i' = batch_i + gen_config.batch_size
    /\ UNCHANGED << gen_config, requests, generated >>
    /\ UNCHANGED notGenVars

\* generate.py 235: asyncio.sleep(3) is over.
Wake ==
    /\ gpc = "sleep"
    /\ gpc' = "for"
    /\ UNCHANGED << gen_config, batch_i, requests, gen_candidates, durations,
                    prompt_tokens, completion_tokens, total_tokens, generated,
                    batch_log, events >>
    /\ UNCHANGED notGenVars

\* generate.py 237-239
ReturnGenerated ==
    /\ gpc = "for"
    /\ batch_i >= gen_config.n_candidates
    /\ generated' = Some(<< gen_candidates, durations, prompt_tokens,
                            completion_tokens, total_tokens >>)
    /\ gpc' = "done"
    /\ UNCHANGED << gen_config, batch_i, requests, gen_candidates, durations,
                    prompt_tokens, completion_tokens, total_tokens, batch_log, events >>
    /\ UNCHANGED notGenVars

NextGenerate ==
    \/ Dispatch
    \/ Complete
    \/ ProcessBatch
    \/ Wake
    \/ ReturnGenerated

SpecGenerate == InitGenerate /\ [][NextGenerate]_vars

\* ------------- prepare/false_attempts.py, extract_unique_false_proofs
CR == "\r"

\* task_data: the statements of the dataset, of one line and of two.
FalseTasks ==
    << [theoremStatement |-> << "t" >>],
       [theoremStatement |-> << "t", NL, "u" >>] >>

\* The candidates of the generation records.
FalseCandidates ==
    { << "p", NL, "q" >>, << "p", CR, NL, "r" >>, << "p" >> }

ErrorPosition(end_line) ==
    [start_pos |-> << 1, 0 >>, end_pos |-> << end_line, 5 >>]

\* What validate.py stores for a candidate: correct, a diagnostic with its
\* position, a LeanError (no position), or nothing after a timeout.
FalseOutcomes ==
    { [correct |-> Some(TRUE), error_message |-> None, error_position |-> None],
      [correct |-> Some(FALSE), error_message |-> Some("e1"),
       error_position |-> Some(ErrorPosition(1))],
      [correct |-> Some(FALSE), error_message |-> Some("e2"),
       error_position |-> Some(ErrorPosition(2))],
      [correct |-> Some(FALSE), error_message |-> Some("error"), error_position |-> None],
      [correct |-> None, error_message |-> None, error_position |-> None] }

\* A generation record with the outcomes of its candidates.
GenerationsWithOutcomes(i) ==
    UNION { { [gen |-> [statement_idx |-> i, candidates |-> cs], entries |-> es] :
                cs \in [1..n -> FalseCandidates], es \in [1..n -> FalseOutcomes] } :
            n \in 0..MaxFalseCands }

\* The forms of a stored validation record: the lists of the outcomes, the
\* record of a task no attempt returned for (all none), and lists of which
\* one is shorter or longer than the candidates.
RecordForms ==
    { "lists", "none", "short correctness", "long error_messages",
      "short error_positions" }

ButLast(list) == SubSeq(list, 1, Len(list) - 1)

StoredValidation(i, es, form) ==
    LET c == [j \in 1..Len(es) |-> es[j].correct]
        m == [j \in 1..Len(es) |-> es[j].error_message]
        p == [j \in 1..Len(es) |-> es[j].error_position]
    IN  IF form = "none"
        THEN [statement_idx |-> i, correctness |-> None, error_messages |-> None,
              error_positions |-> None]
        ELSE [statement_idx |-> i,
              correctness |->
                  Some(IF form = "short correctness" /\ es # << >> THEN ButLast(c) ELSE c),
              error_messages |->
                  Some(IF form = "long error_messages" THEN Append(m, None) ELSE m),
              error_positions |->
                  Some(IF form = "short error_positions" /\ es # << >> THEN ButLast(p) ELSE p)]

\* str.replace('\r\n', '\n').replace('\r', '\n')
RECURSIVE Normalized(_)
Normalized(text) ==
    IF text = << >> THEN << >>
    ELSE IF Head(text) = CR
         THEN IF Len(text) >= 2 /\ text[2] = NL
              THEN << NL >> \o Normalized(SubSeq(text, 3, Len(text)))
              ELSE << NL >> \o Normalized(Tail(text))
         ELSE << Head(text) >> \o Normalized(Tail(text))

\* list[:m], also for a negative m
SliceTo(list, m) ==
    IF m >= 0
    THEN SubSeq(list, 1, IF m < Len(list) THEN m ELSE Len(list))
    ELSE SubSeq(list, 1, IF Len(list) + m > 0 THEN Len(list) + m ELSE 0)

\* false_attempts.py 78-82: the candidate up to the end line of its error.
FalseAttempt(candidate, error_position, num_statement_lines) ==
    LET normalized_proof == Normalized(candidate)
        error_end_line == error_position.end_pos[1] - num_statement_lines
    IN  strip(join(SliceTo(splitlines(normalized_proof), error_end_line + 1)))

\* false_attempts.py 69-85: the dict unique_false_attempts, in the order of
\* its keys; a text that is a key already keeps its first value.
RECURSIVE UniqueFalseAttempts(_, _, _, _, _)
UniqueFalseAttempts(cands, val, nsl, i, acc) ==
    IF i > Len(cands) THEN acc
    ELSE LET is_correct == Get(val.correctness)[i]
             error_message == Get(val.error_messages)[i]
             error_position == Get(val.error_positions)[i]
         IN  IF is_correct = Some(TRUE) \/ error_position = None
             THEN UniqueFalseAttempts(cands, val, nsl, i + 1, acc)
             ELSE LET false_attempt == FalseAttempt(cands[i], Get(error_position), nsl)
                  IN  IF \E h \in 1..Len(acc) : acc[h].proof = false_attempt
                      THEN UniqueFalseAttempts(cands, val, nsl, i + 1, acc)
                      ELSE UniqueFalseAttempts(cands, val, nsl, i + 1,
                               Append(acc, [proof |-> false_attempt,
                                            error_message |-> error_message,
                                            error_position |-> error_position]))

\* validation_map[statement_idx]
ValidationMap(i) ==
    CHOOSE r \in { validation_data[h] : h \in 1..Len(validation_data) } :
        r.statement_idx = i

\* false_attempts.py 56-64: len() of None is a TypeError, a length other
\* than the number of candidates a ValueError.
LengthCheck(gen_result, val) ==
    LET expected_length == Len(gen_result.candidates)
    IN  IF val.correctness = None THEN Some("TypeError")
        ELSE IF Len(Get(val.correctness)) # expected_length THEN Some("ValueError")
        ELSE IF val.error_messages = None THEN Some("TypeError")
        ELSE IF Len(Get(val.error_messages)) # expected_length THEN Some("ValueError")
        ELSE IF val.error_positions = None THEN Some("TypeError")
        ELSE IF Len(Get(val.error_positions)) # expected_length THEN Some("ValueError")
        ELSE None

\* false_attempts.py 35-41
InitFalseAttempts ==
    /\ PipelineIdle
    /\ MergeIdle
    /\ MetricsIdle
    /\ LongestIdle
    /\ ExtractIdle
    /\ GenerateIdle
    /\ fpc = "for"
    /\ task_data = FalseTasks
    /\ \E a \in GenerationsWithOutcomes(0), b \in GenerationsWithOutcomes(1),
          h \in 0..2, form \in RecordForms :
          /\ Len(a.entries) + Len(b.entries) <= MaxFalseCands
          /\ h = 0 => form = "lists"
          /\ generation_data = << a.gen, b.gen >>
          /\ validation_data =
                << StoredValidation(0, a.entries, IF h = 1 THEN form ELSE "lists"),
                   StoredValidation(1, b.entries, IF h = 2 THEN form ELSE "lists") >>
    /\ gen_pos = 0
    /\ output_data = << >>
    /\ extract_raised = None

\* false_attempts.py 43-98: one generation record.
ExtractRecord ==
    /\ fpc = "for"
    /\ gen_pos < Len(generation_data)
    /\ LET gen_result == generation_data[gen_pos + 1]
           statement_idx == gen_result.statement_idx
           theorem == task_data[statement_idx + 1].theoremStatement
           num_statement_lines == count_newlines(theorem) + 1
           validation == ValidationMap(statement_idx)
           check == LengthCheck(gen_result, validation)
       IN  IF check # None
           THEN /\ extract_raised' = check
                /\ fpc' = "raised"
                /\ UNCHANGED << gen_pos, output_data >>
           ELSE /\ output_data' =
                      Append(output_data,
                             [statement_idx |-> statement_idx,
                              false_attempts |->
                                  UniqueFalseAttempts(gen_result.candidates, validation,
                                                      num_statement_lines, 1, << >>)])
                /\ gen_pos' = gen_pos + 1
                /\ UNCHANGED << fpc, extract_raised >>
    /\ UNCHANGED << generation_data, validation_data, task_data >>
    /\ UNCHANGED notFalseVars

\* false_attempts.py 100
ReturnOutput ==
    /\ fpc = "for"
    /\ gen_pos = Len(generation_data)
    /\ fpc' = "done"
    /\ UNCHANGED << generation_data, validation_data, task_data, gen_pos, output_data,
                    extract_raised >>
    /\ UNCHANGED notFalseVars

NextFalseAttempts ==
    \/ ExtractRecord
    \/ ReturnOutput

SpecFalseAttempts == InitFalseAttempts /\ [][NextFalseAttempts]_vars

\* ============================================================== claims
\* Helpers of the claims, written without the operators of the model.
RECURSIVE CountBreaks(_)
CountBreaks(text) ==
    IF text = << >> THEN 0
    ELSE (IF Head(text) = NL THEN 1 ELSE 0) + CountBreaks(Tail(text))

\* The number of lines of a text: its line breaks, and one more for a last
\* line that no line break ends.
LineCount(text) ==
    CountBreaks(text) + (IF text # << >> /\ text[Len(text)] # NL THEN 1 ELSE 0)

\* A pass of the proof loop of the running attempt has just appended its entries.
AfterPass == pc = "check" /\ Len(correctness) >= 1 /\ lastCmd # None
Last(list) == list[Len(list)]
HasIndeterminate(result) ==
    /\ ~IsNone(result.correctness)
    /\ \E j \in 1..Len(Get(result.correctness)) : IsNone(Get(result.correctness)[j])
\* The checker answered the last pass with a CommandResponse that is not valid.
AnsweredInvalid ==
    /\ AfterPass
    /\ lean_output # None
    /\ Get(lean_output).kind = "CommandResponse"
    /\ ~Get(lean_output).valid
AnsweredValid ==
    /\ AfterPass
    /\ lean_output # None
    /\ Get(lean_output).kind = "CommandResponse"
    /\ Get(lean_output).valid
AnsweredLeanError ==
    /\ AfterPass
    /\ lean_output # None
    /\ Get(lean_output).kind = "LeanError"

\* C1: when the answer to `statement := proof` is no LeanError and not valid,
\* the candidate is recorded as false with the data of the first message, the
\* position of that message if it has both ends (none otherwise) and, if it
\* has a start, its start line minus the number of lines of the statement.
C1_FirstDiagnostic ==
    AnsweredInvalid =>
        LET first == Get(lean_output).messages[1]
        IN  /\ Last(correctness) = Some(FALSE)
            /\ Last(error_messages) = Some(first.data)
            /\ Last(error_positions) =
                   IF first.start_pos # None /\ first.end_pos # None
                   THEN Some([start_pos |-> << first.start_pos[1].line,
                                               first.start_pos[1].column >>,
                              end_pos |-> << first.end_pos[1].line,
                                             first.end_pos[1].column >>])
                   ELSE None
            /\ Last(compiled_line_counts) =
                   IF first.start_pos # None
                   THEN Some(first.start_pos[1].line - LineCount(theorem_statement))
                   ELSE None

\* A second message follows the first, which has both ends and starts on the
\* line after the statement's first line.
C1_Witness ==
    /\ AnsweredInvalid
    /\ Len(Get(lean_output).messages) = 2
    /\ Last(error_messages) = Some("first")
    /\ Last(error_positions) = Some([start_pos |-> << 2, 4 >>, end_pos |-> << 2, 10 >>])
    /\ LineCount(theorem_statement) = 2
    /\ Last(compiled_line_counts) = Some(0)

\* C2: a candidate is recorded as correct exactly when the answer is no
\* LeanError and is valid; its error message and position are then none and
\* its compiled lines are the number of lines of the proof text.
C2_CorrectIffValid ==
    AfterPass =>
        /\ Last(correctness) = Some(TRUE) <=> AnsweredValid
        /\ Last(correctness) = Some(TRUE) =>
               /\ Last(error_messages) = None
               /\ Last(error_positions) = None
               /\ Last(compiled_line_counts) = Some(LineCount(proofs[Len(correctness)]))

\* A correct candidate whose text ends with a line break, and a warning in
\* the answer.
C2_Witness ==
    /\ AnsweredValid
    /\ Get(lean_output).messages # << >>
    /\ proofs[Len(correctness)] = << "p", NL >>
    /\ Last(correctness) = Some(TRUE)
    /\ Last(compiled_line_counts) = Some(1)

\* C3: a LeanError is recorded as false with the error's message, no
\* position and no compiled lines.
C3_LeanError ==
    AnsweredLeanError =>
        /\ Last(correctness) = Some(FALSE)
        /\ Last(error_messages) = Some(Get(lean_output).message)
        /\ Last(error_positions) = None
        /\ Last(compiled_line_counts) = None

C3_Witness ==
    /\ AnsweredLeanError
    /\ Len(correctness) = 2
    /\ Last(correctness) = Some(FALSE)
    /\ Last(error_messages) = Some("error")

\* C4: a check that ends in a timeout, a connection abort or an undecodable
\* answer is recorded as indeterminate, every field none, never as false.
C4_Indeterminate ==
    (AfterPass /\ raised # None) =>
        /\ Get(raised) \in CaughtExceptions
        /\ Last(correctness) = None
        /\ Last(error_messages) = None
        /\ Last(error_positions) = None
        /\ Last(compiled_line_counts) = None

C4_Witness ==
    /\ AfterPass
    /\ raised = Some("JSONDecodeError")
    /\ Len(correctness) = 2
    /\ correctness[1] = Some(TRUE)
    /\ Last(correctness) = None

\* The record stored for the task that was processed last.
StoredResult ==
    IF script = "validate" THEN validation_results[cursor] ELSE validations[idx + 1]
\* The script can go on with the for loop or with the file.
RunGoesOn == ENABLED (ForNext \/ ForNextRepair \/ WriteFile \/ RewriteFile)
\* The stored record that the repair pass takes for malformed.
Malformed(result) ==
    \/ result.correctness = None
    \/ result.error_messages = None
    \/ result.error_positions = None
    \/ Len(result.correctness[1]) # 6
    \/ Len(result.error_messages[1]) # 6
    \/ Len(result.error_positions[1]) # 6
    \/ \E j \in 1..Len(result.correctness[1]) : result.correctness[1][j] = None

\* C5 as stated: a timeout or transport failure during a check makes the
\* runner retry the whole task, so a record with an indeterminate entry is
\* stored only when the attempt bound is exhausted.
C5_Original ==
    (pc = "for" /\ cursor >= 1 /\ HasIndeterminate(StoredResult)) =>
        n_tries = (IF script = "validate" THEN 3 ELSE 5)

\* C5 as amended: a timeout or transport failure during a check never leaves
\* the proof loop: the candidate is recorded as indeterminate, the outcomes
\* collected so far are kept, the attempt goes on with the same process and
\* environment, and no attempt is counted.
C5_TimeoutKeepsAttempt ==
    [][(/\ pc = "check"
        /\ Len(correctness) < Len(proofs)
        /\ raised' # None
        /\ raised'[1] \in {"TimeoutError", "ConnectionAbortedError", "JSONDecodeError"}) =>
            /\ pc' = "check"
            /\ correctness' = Append(correctness, None)
            /\ error_messages' = Append(error_messages, None)
            /\ server' = server
            /\ context_env' = context_env
            /\ n_tries' = n_tries
            /\ validation_result' = validation_result]_vars

\* The first attempt of a task returned a failure followed by an
\* indeterminate entry, and the record was stored as it is.
C5_Witness ==
    /\ script = "validate"
    /\ pc = "for"
    /\ cursor >= 1
    /\ n_tries = 1
    /\ validation_results[cursor].correctness = Some(<< Some(FALSE), None >>)

\* C6: the attempt of a task is started at most 3 times in the primary run
\* and 5 times in the repair pass, never after an attempt that returned; if
\* every attempt raises, the stored record is all none and the run goes on.
C6_BoundedAttempts ==
    /\ script = "validate" => n_tries <= 3
    /\ script = "revalidate" => n_tries <= 5
    /\ pc = "check" =>
          /\ n_tries < (IF script = "validate" THEN 3 ELSE 5)
          /\ validation_result.correctness = None
    /\ (pc = "for" /\ cursor >= 1 /\ raised # None) =>
          /\ n_tries = (IF script = "validate" THEN 3 ELSE 5)
          /\ StoredResult =
                 [statement_idx |-> idx, correctness |-> None, error_positions |-> None,
                  error_messages |-> None, compiled_line_counts |-> None]
          /\ RunGoesOn

\* The fifth attempt of the repair pass raised, the all-none record is
\* stored and another selected task is left.
C6_Witness ==
    /\ script = "revalidate"
    /\ pc = "for"
    /\ raised # None
    /\ n_tries = 5
    /\ cursor >= 1
    /\ cursor < Len(revalidate)
    /\ validations[idx + 1].correctness = None

\* C7 as stated: once the context of a task fails to compile, no later task
\* is processed and no results file is written.
C7_Original ==
    raised = Some("AssertionError") =>
        /\ ~(pc = "while" /\ n_tries = 0)
        /\ ~(pc = "done" /\ file # None)

\* C7 as amended: a context that fails to compile ends only that attempt,
\* before any candidate is checked; the retry loop catches the failed assert
\* and counts the attempt, tries again up to the bound, stores the all-none
\* record, and the run goes on to the later tasks and to the file.
C7_ContextFailureRetried ==
    raised = Some("AssertionError") =>
        /\ pc \in {"while", "for", "done"}
        /\ server = None /\ lastCmd = None /\ correctness = << >>
        /\ (pc = "while" /\ n_tries >= 1) =>
              /\ validation_result.correctness = None
              /\ n_tries < MaxTries => ENABLED StartAttempt
              /\ n_tries = MaxTries => ENABLED (AppendResult \/ ReplaceResult)
        /\ pc = "for" =>
              /\ StoredResult.correctness = None
              /\ RunGoesOn
        /\ pc = "done" =>
              /\ file # None
              /\ file[1][idx + 1].correctness = None

\* The context of task 0 failed in every attempt, and task 1 is loaded.
C7_Witness ==
    /\ script = "validate"
    /\ raised = Some("AssertionError")
    /\ pc = "while"
    /\ n_tries = 0
    /\ idx = 1
    /\ validation_results[1].correctness = None

\* C8 as stated: a candidate with a definite diagnostic failure is never
\* submitted to the checker again.
C8_Original == lastCmd # None => ~lastCmd[1].again

\* C8 as amended: candidates are submitted only while no attempt of their
\* task has returned in this run, and a candidate with a definite failure is
\* submitted again only with its whole task: by a retry of the primary run
\* after an attempt that raised, or by the repair pass for a task whose
\* stored record is malformed.
C8_ResubmittedOnlyWithTask ==
    lastCmd # None =>
        /\ validation_result.correctness = None
        /\ lastCmd[1].again =>
              \/ script = "validate" /\ n_tries >= 1
              \/ script = "revalidate" /\ Malformed(file[1][idx + 1])

\* A retry of the primary run submits a candidate that failed before.
C8_Witness ==
    /\ script = "validate"
    /\ lastCmd # None
    /\ lastCmd[1].again
    /\ lastCmd[1].cand = 1
    /\ Len(correctness) = 1

\* C9 as stated: the outcome of every task completed so far is in the file
\* while a later task is processed, and when the script is killed.
C9_Original ==
    /\ (script = "validate" /\ pc \in {"while", "check", "killed"} /\ cursor >= 1) =>
          /\ file # None
          /\ Len(file[1]) >= cursor
    /\ (script = "revalidate" /\ pc \in {"while", "check"} /\ cursor >= 1) =>
          \A m \in 1..cursor :
              file[1][revalidate[m] + 1] = validations[revalidate[m] + 1]

\* C9 as amended: the file is written once, by the last step of the script,
\* with the records of all tasks; until then the primary run has no file
\* and the repair pass leaves the file as it was.
C9_WrittenOnceAtEnd ==
    /\ [][file' # file =>
            /\ pc = "for" /\ pc' = "done"
            /\ script = "validate" =>
                  /\ cursor = Len(tasks)
                  /\ Len(validation_results) = Len(tasks)
                  /\ file' = Some(validation_results)
            /\ script = "revalidate" =>
                  /\ cursor = Len(revalidate)
                  /\ file' = Some(validations)]_vars
    /\ [](script = "validate" /\ pc # "done" => file = None)

\* The primary run is killed after a task was completed: there is no file.
C9_Witness ==
    /\ script = "validate"
    /\ pc = "killed"
    /\ cursor >= 1
    /\ file = None

\* C10: every check of an attempt goes to the process started for that
\* attempt of that task, against the environment its own context returned.
C10_OwnSession ==
    lastCmd # None =>
        /\ lastCmd[1].task = idx
        /\ lastCmd[1].attempt = n_tries
        /\ lastCmd[1].server = [task |-> idx, attempt |-> n_tries]
        /\ server # None
        /\ server[1].task = idx /\ server[1].attempt = n_tries
        /\ context_res # None
        /\ lastCmd[1].env = context_res[1].env
        /\ lastCmd[1].env # None
        /\ lastCmd[1].env[1] < server[1].nenv

\* The second candidate of task 1 is checked in the third attempt.
C10_Witness ==
    /\ lastCmd # None
    /\ idx = 1
    /\ n_tries = 2
    /\ lastCmd[1].cand = 2
    /\ lastCmd[1].server = [task |-> 1, attempt |-> 2]

\* The stored record is malformed for a task with n generated candidates.
MalformedFor(result, n) ==
    \/ result.correctness = None
    \/ result.error_messages = None
    \/ result.error_positions = None
    \/ Len(result.correctness[1]) # n
    \/ Len(result.error_messages[1]) # n
    \/ Len(result.error_positions[1]) # n
    \/ \E j \in 1..Len(result.correctness[1]) : result.correctness[1][j] = None

\* C11 as stated: the repair pass selects a task if and only if its stored
\* record is malformed for the number of candidates generated for that task,
\* and the record of every other task is written back unchanged.
C11_Original ==
    /\ [](script = "revalidate" /\ pc = "for" =>
            \A i \in 1..Len(tasks) :
                (\E m \in 1..Len(revalidate) : revalidate[m] = i - 1)
                    <=> MalformedFor(file[1][i], Len(tasks[i].candidates)))
    /\ [][script = "revalidate" /\ file' # file =>
            \A i \in 1..Len(tasks) :
                ~MalformedFor(file[1][i], Len(tasks[i].candidates)) =>
                    file'[1][i] = file[1][i]]_vars

\* C12 as stated: a second run of the repair pass on the file the first run
\* has written leaves the validation results unchanged.
C12_Original == [][passes >= 1 => file' = file]_vars

\* C12 as amended: a run of the repair pass never changes a record that is
\* well-formed by its own test (no none field, three arrays of length 6, no
\* indeterminate entry), and on a file of such records only it makes no checker
\* call and leaves the file as it is.
C12_WellFormedKept ==
    /\ [][(script = "revalidate" /\ file' # file) =>
            \A i \in 1..Len(tasks) :
                ~Malformed(file[1][i]) => file'[1][i] = file[1][i]]_vars
    /\ []((script = "revalidate" /\ \A i \in 1..Len(tasks) : ~Malformed(file[1][i])) =>
            /\ server = None /\ lastCmd = None
            /\ pc # "scan" => revalidate = << >> /\ validations = file[1])

\* The second run has repaired one task again and has written the file, which
\* holds a well-formed record too.
C12_Witness ==
    /\ passes = 1
    /\ pc = "done"
    /\ Len(revalidate) = 1
    /\ validations = file[1]
    /\ \E i \in 1..Len(tasks) : ~Malformed(file[1][i])

\* The statement indices that both input files of combine_files hold.
InBoth == (DOMAIN generation_results) \cap (DOMAIN validation_index)
\* The lengths of the arrays of a task: candidates, correctness,
\* error_messages, error_positions, compiled_line_counts.
Lengths(i) ==
    << Len(generation_results[i].candidates),
       Len(validation_index[i].correctness[1]),
       Len(validation_index[i].error_messages[1]),
       Len(validation_index[i].error_positions[1]),
       Len(validation_index[i].compiled_line_counts[1]) >>
NCands(i) == Len(generation_results[i].candidates)
HasLists(i) == validation_index[i].correctness # None
Mismatched(i) == HasLists(i) /\ \E a, b \in 1..5 : Lengths(i)[a] # Lengths(i)[b]
\* A validation array of task i is shorter than its candidate list.
TooShort(i) == HasLists(i) /\ \E a \in 2..5 : Lengths(i)[a] < Lengths(i)[1]

C15_NoneRecordMerged ==
    \A i \in InBoth : validation_index[i].correctness = None =>
        /\ ~(stmt_idx = i /\ mpc = "raised")
        /\ stmt_idx > i =>
              LET g == generation_results[i]
                  entry == combined_data[problems_data[i + 1].theoremName]
              IN  /\ Len(entry.candidates) = Len(g.candidates)
                  /\ \A j \in 1..Len(g.candidates) :
                        entry.candidates[j] =
                            [proof |-> g.candidates[j],
                             is_correct |-> None,
                             duration |-> g.durations[j],
                             prompt_tokens |-> g.prompt_tokens[j],
                             completion_tokens |-> g.completion_tokens[j],
                             total_tokens |-> g.total_tokens[j],
                             compiled_lines |-> None,
                             error_message |-> None,
                             error_position |-> None]

\* Task 0 has two candidates and the all-none record, and was merged.
C15_Witness ==
    /\ 0 \in InBoth
    /\ validation_index[0].correctness = None
    /\ Len(generation_results[0].candidates) = 2
    /\ stmt_idx >= 1
    /\ Len(combined_data["a"].candidates) = 2
    /\ mpc = "done"

\* The argument list of the last call of compute_pass_at_k: its length, and
\* the number of its candidates whose is_correct is true.
N == Len(candidates)
NCorrect == Cardinality({ j \in 1..Len(candidates) : candidates[j].is_correct = << TRUE >> })
RECURSIVE Choose(_, _)
\* The binomial coefficient, by Pascal's rule.
Choose(n, j) ==
    IF j = 0 THEN 1
    ELSE IF n = 0 THEN 0
    ELSE Choose(n - 1, j - 1) + Choose(n - 1, j)
\* The returned value is 1 - C(n-c, j) / C(n, j).
IsDrawProbability(v, n, c, j) ==
    v.num * Choose(n, j) = (Choose(n, j) - Choose(n - c, j)) * v.den

C17_Original ==
    (pass_at_k # None /\ k <= N) => IsDrawProbability(pass_at_k[1], N, NCorrect, k)

\* C18 as stated: for 1 <= k <= n the value is 1 when c >= k, 0 when c = 0,
\* and strictly between 0 and 1 when 0 < c < k.
C18_Original ==
    (pass_at_k # None /\ k <= N) =>
        LET v == pass_at_k[1]
        IN  /\ NCorrect >= k => v.num = v.den
            /\ NCorrect = 0 => v.num = 0
            /\ (0 < NCorrect /\ NCorrect < k) => (0 < v.num /\ v.num < v.den)

\* C18 as amended: for 1 <= k <= n the value is 1 when c >= k, 0 when c = 0,
\* and when 0 < c < k it is greater than 0 and at most 1: 1 when k > n - c,
\* less than 1 when k <= n - c.
C18_Range ==
    (pass_at_k # None /\ k <= N) =>
        LET v == pass_at_k[1]
        IN  /\ NCorrect >= k => v.num = v.den
            /\ NCorrect = 0 => v.num = 0
            /\ (0 < NCorrect /\ NCorrect < k) =>
                  /\ 0 < v.num
                  /\ v.num <= v.den
                  /\ v.num = v.den <=> k > N - NCorrect

\* Two candidates, one correct, k = 2: every draw holds the correct one.
C18_Witness ==
    /\ pass_at_k = << [num |-> 1, den |-> 1] >>
    /\ N = 2
    /\ NCorrect = 1
    /\ k = 2

\* C19 as stated: for a fixed list, compute_pass_at_k does not decrease when
\* k grows.
C19_Original ==
    pass_at_k # None =>
        \A k1 \in 1..k :
            LET v1 == compute_pass_at_k(candidates, k1)
                v2 == pass_at_k[1]
            IN  v1.num * v2.den <= v2.num * v1.den

\* The candidates of a theorem result that have a compiled_lines, and the
\* sums over them: compiled lines, lines of the proof text.
RECURSIVE CompiledSum(_)
CompiledSum(cs) ==
    IF cs = << >> THEN 0
    ELSE (IF Head(cs).compiled_lines = << >> THEN 0 ELSE Head(cs).compiled_lines[1])
         + CompiledSum(Tail(cs))
RECURSIVE ProofLineSum(_)
ProofLineSum(cs) ==
    IF cs = << >> THEN 0
    ELSE (IF Head(cs).compiled_lines = << >> THEN 0 ELSE CountBreaks(Head(cs).proof) + 1)
         + ProofLineSum(Tail(cs))
\* The sum of the per-task ratios of a group, as a pair numerator, denominator.
RECURSIVE RatioSum(_)
RatioSum(rs) ==
    IF rs = << >> THEN << 0, 1 >>
    ELSE LET rest == RatioSum(Tail(rs))
             a == IF ProofLineSum(Head(rs).candidates) = 0 THEN 0
                  ELSE CompiledSum(Head(rs).candidates)
             b == IF ProofLineSum(Head(rs).candidates) = 0 THEN 1
                  ELSE ProofLineSum(Head(rs).candidates)
         IN  << rest[1] * b + a * rest[2], rest[2] * b >>
\* The theorem results of the group an entry of metrics_data is about.
GroupOf(m) ==
    IF m.group_type = "all_statements" THEN results
    ELSE IF m.group_type = "category"
         THEN SelectSeq(results, LAMBDA r : r.category = m.group_name)
         ELSE SelectSeq(results, LAMBDA r : r.brute_force = (m.group_name = "true"))

\* C20: the compiled ratio of every group of analyze_results is the mean over
\* the tasks of the group of the per-task ratio: the compiled lines of the
\* task's candidates that have a compiled_lines over the proof lines of those
\* candidates, 0 when there is no such line.
C20_MeanOfTaskRatios ==
    metrics_data # None =>
        \A g \in 1..Len(metrics_data[1]) :
            LET m == metrics_data[1][g]
                group == GroupOf(m)
                total == RatioSum(group)
            IN  /\ Len(group) > 0
                /\ m.total_theorems = Len(group)
                /\ m.avg_compiled_ratio.num * total[2] * Len(group)
                       = total[1] * m.avg_compiled_ratio.den

\* Two tasks with ratios 1/2 and 1: the group ratio is 3/4, where the ratio
\* of the sums is 2/3; an indeterminate candidate counts in neither sum.
C20_Witness ==
    /\ metrics_data # None
    /\ Len(results) = 2
    /\ metrics_data[1][1].group_type = "all_statements"
    /\ metrics_data[1][1].avg_compiled_ratio = [num |-> 3, den |-> 4]
    /\ CompiledSum(results[1].candidates) + CompiledSum(results[2].candidates) = 2
    /\ ProofLineSum(results[1].candidates) + ProofLineSum(results[2].candidates) = 3
    /\ \E r \in 1..2 : \E j \in 1..Len(results[r].candidates) :
          /\ results[r].candidates[j].compiled_lines = << >>
          /\ results[r].candidates[j].proof = <<"p", NL, "q">>

\* ---- C21
\* The theorem entries of the directory, as (file, position in the file).
TheoremEntries ==
    { e \in (1..Len(jsonl_files)) \X (1..MaxEntries) : e[2] <= Len(jsonl_files[e[1]]) }

CandidatesOf(e) == jsonl_files[e[1]][e[2]].candidates

\* The lengths of the correct proofs of an entry.
CorrectLengths(e) ==
    { Len(CandidatesOf(e)[i].proof) :
        i \in { j \in 1..Len(CandidatesOf(e)) : CandidatesOf(e)[j].is_correct } }

\* The entries with a correct proof that is not empty.
Qualifying == { e \in TheoremEntries : \E l \in CorrectLengths(e) : l > 0 }

LongestLength(e) == CHOOSE l \in CorrectLengths(e) : \A m \in CorrectLengths(e) : m <= l

\* The first correct proof of the largest length.
FirstLongest(e) ==
    LET i == CHOOSE j \in 1..Len(CandidatesOf(e)) :
                 /\ CandidatesOf(e)[j].is_correct
                 /\ Len(CandidatesOf(e)[j].proof) = LongestLength(e)
                 /\ \A h \in 1..(j - 1) :
                       ~ (/\ CandidatesOf(e)[h].is_correct
                          /\ Len(CandidatesOf(e)[h].proof) = LongestLength(e))
    IN  CandidatesOf(e)[i].proof

\* The returned item t is the one of entry e.
ItemOf(t, e) ==
    /\ t.source_file = e[1]
    /\ t.theorem_name = jsonl_files[e[1]][e[2]].theorem_name
    /\ t.proof_length = LongestLength(e)
    /\ t.proof = FirstLongest(e)

Smaller(a, b) == IF a < b THEN a ELSE b

\* The returned list r holds the n longest qualifying entries, longest first.
IsTopOf(r, n) ==
    /\ Len(r) = n
    /\ \A i \in 1..Len(r) : \E e \in Qualifying : ItemOf(r[i], e)
    /\ \A i, j \in 1..Len(r) : i < j =>
          /\ r[i].proof_length >= r[j].proof_length
          /\ r[i] # r[j]
    /\ \A e \in Qualifying :
          (\A i \in 1..Len(r) : ~ ItemOf(r[i], e)) =>
              \A i \in 1..Len(r) : r[i].proof_length >= LongestLength(e)

\* C21 (as stated): find_longest_correct_proofs_directory returns, longest
\* first, the min(k, m) entries with the largest longest-correct-proof length
\* among the m entries that have a correct non-empty proof, with the first
\* proof of maximal length of each; the heap never holds more than k items;
\* no qualifying entry is lost, also with equal lengths and with a theorem
\* name that occurs in several files.
C21_Original ==
    /\ Len(min_heap) <= top_k
    /\ lpc = "done" =>
          IsTopOf(Get(top_theorems), Smaller(top_k, Cardinality(Qualifying)))

\* ---- C26
ThreeTicksAt(text, i) ==
    /\ i + 2 <= Len(text)
    /\ text[i] = "^" /\ text[i + 1] = "^" /\ text[i + 2] = "^"

\* A line of the text starts at position i.
LineStartsAt(text, i) == i = 1 \/ (i > 1 /\ i <= Len(text) + 1 /\ text[i - 1] = "\n")

\* A code-fence line starts at position i of the text.
FenceLineAt(text, i) == LineStartsAt(text, i) /\ ThreeTicksAt(text, i)

\* A closing fence line, three backquotes and blanks only, starts at position i.
ClosingFenceAt(text, i) ==
    /\ i > 1
    /\ FenceLineAt(text, i)
    /\ \E e \in (i + 2)..Len(text) :
          /\ e = Len(text) \/ text[e + 1] = "\n"
          /\ \A j \in (i + 3)..e : text[j] = " "

HasFenceLine(text) == \E i \in 1..Len(text) : FenceLineAt(text, i)

HasPrefix(text) ==
    Len(text) >= 3 /\ text[1] = ":" /\ text[2] = "=" /\ text[3] = " "

\* C26 (as stated): for a response that begins with a fence line and has a
\* closing fence line, also one followed by a trailing newline or blank line,
\* the extracted proof contains no fence line; a response with neither a
\* leading fence nor a leading ":= " is returned unchanged.
C26_Original ==
    extracted_proof # None =>
        /\ (/\ FenceLineAt(response, 1)
            /\ \E i \in 1..Len(response) : ClosingFenceAt(response, i))
              => ~ HasFenceLine(Get(extracted_proof))
        /\ (~ FenceLineAt(response, 1) /\ ~ HasPrefix(response))
              => Get(extracted_proof) = response

\* ---- C22
\* The five lists of the tuple generate returned.
Returned == Get(generated)

\* C22: whatever the requests give, generate returns five lists (candidates,
\* durations, prompt_tokens, completion_tokens, total_tokens) of length
\* n_candidates each, for any batch_size >= 1, also one that does not divide
\* n_candidates.
C22_FiveListsOfNCandidates ==
    generated # None =>
        /\ Len(Returned) = 5
        /\ \A a \in 1..5 : Len(Returned[a]) = gen_config.n_candidates

\* generate has returned after a batch that raised and a request that
\* failed, with a batch_size that does not divide n_candidates.
C22_Witness ==
    /\ generated # None
    /\ gen_config.n_candidates % gen_config.batch_size # 0
    /\ \E b \in 1..Len(batch_log) : batch_log[b].raised
    /\ \E j \in 1..Len(requests) : requests[j].kind = "dict" /\ ~ requests[j].success

\* ---- C23
\* The slots filled so far and the batch of each.
Filled == 1..Len(gen_candidates)
BatchOf(s) == CHOOSE b \in 1..Len(batch_log) :
                  batch_log[b].start < s /\ s <= batch_log[b].start + batch_log[b].size

\* The request of slot s raised, or the provider reported it as failed.
Failed(s) ==
    \/ requests[s].kind = "exception"
    \/ requests[s].kind = "dict" /\ ~ requests[s].success

ZeroTokens(s) ==
    prompt_tokens[s] = 0 /\ completion_tokens[s] = 0 /\ total_tokens[s] = 0

\* Slot s holds what its request returned: the proof of the content (no text
\* for no content), the duration and the token counts of the usage.
HoldsReturned(s) ==
    /\ gen_candidates[s] = IF requests[s].content = None THEN << >>
                           ELSE extract_proof_from_response(Get(requests[s].content))
    /\ durations[s] = requests[s].duration
    /\ IF requests[s].usage = None THEN ZeroTokens(s)
       ELSE /\ prompt_tokens[s] = Get(requests[s].usage).prompt_tokens
            /\ completion_tokens[s] = Get(requests[s].usage).completion_tokens
            /\ total_tokens[s] = Get(requests[s].usage).total_tokens

EmptySlot(s) ==
    gen_candidates[s] = << >> /\ durations[s] = 0 /\ ZeroTokens(s)

\* A step keeps the slots filled before it.
KeepsSlots ==
    /\ Len(gen_candidates') >= Len(gen_candidates)
    /\ \A s \in Filled :
          /\ gen_candidates'[s] = gen_candidates[s]
          /\ durations'[s] = durations[s]
          /\ prompt_tokens'[s] = prompt_tokens[s]
          /\ completion_tokens'[s] = completion_tokens[s]
          /\ total_tokens'[s] = total_tokens[s]

NBatches == (gen_config.n_candidates + gen_config.batch_size - 1) \div gen_config.batch_size

\* C24: an exception raised while a batch is processed does not end generate:
\* the batch adds exactly current_batch_size slots, all without text and with
\* zero telemetry, nothing of what the batch had processed is kept, the slots
\* of the earlier batches stay as they are and the remaining batches run.
C24_BatchExceptionContained ==
    /\ [](\A b \in 1..Len(batch_log) :
            /\ batch_log[b].size =
                  (IF gen_config.batch_size < gen_config.n_candidates - batch_log[b].start
                   THEN gen_config.batch_size
                   ELSE gen_config.n_candidates - batch_log[b].start)
            /\ (b < Len(batch_log) => batch_log[b + 1].start = batch_log[b].start + batch_log[b].size)
            /\ (b = Len(batch_log) =>
                   /\ Len(gen_candidates) = batch_log[b].start + batch_log[b].size
                   /\ Len(durations) = Len(gen_candidates)
                   /\ Len(prompt_tokens) = Len(gen_candidates)
                   /\ Len(completion_tokens) = Len(gen_candidates)
                   /\ Len(total_tokens) = Len(gen_candidates))
            /\ batch_log[b].raised =>
                  \A s \in (batch_log[b].start + 1)..(batch_log[b].start + batch_log[b].size) :
                      EmptySlot(s))
    /\ [](generated # None => Len(batch_log) = NBatches)
    /\ [][KeepsSlots]_vars

\* generate has returned; a batch raised although one of its requests had
\* returned a proof, and a batch was run after it.
C24_Witness ==
    /\ generated # None
    /\ \E b \in 1..Len(batch_log) :
          /\ batch_log[b].raised
          /\ b < Len(batch_log)
          /\ \E s \in (batch_log[b].start + 1)..(batch_log[b].start + batch_log[b].size) :
                /\ requests[s].kind = "dict" /\ requests[s].success
                /\ requests[s].content # None /\ requests[s].usage # None

\* ---- C25
NPending == Cardinality({ j \in 1..Len(requests) : requests[j].kind = "pending" })

\* C25: no request of a batch is issued while a request of an earlier batch is
\* pending; a sleep lies between every two consecutive batches and none after
\* the last one; generate runs ceil(n_candidates / batch_size) batches.
C25_SequentialBatches ==
    /\ [][Len(requests') > Len(requests) => NPending = 0]_vars
    /\ [](/\ events # << >> => events[1] = "batch"
          /\ \A e \in 1..(Len(events) - 1) : events[e] # events[e + 1])
    /\ [](generated # None =>
             /\ events[Len(events)] = "batch"
             /\ Cardinality({ e \in 1..Len(events) : events[e] = "batch" }) = NBatches
             /\ NPending = 0)

\* generate has returned after more than one batch, the first one with
\* several requests.
C25_Witness ==
    /\ generated # None
    /\ Len(events) >= 3
    /\ gen_config.batch_size >= 2

\* ---- C27
\* The four fields of a record are all none, or all lists of length n.
NoneOrListsOf(result, n) ==
    \/ /\ result.correctness = << >>
       /\ result.error_positions = << >>
       /\ result.error_messages = << >>
       /\ result.compiled_line_counts = << >>
    \/ /\ result.correctness # << >> /\ Len(result.correctness[1]) = n
       /\ result.error_positions # << >> /\ Len(result.error_positions[1]) = n
       /\ result.error_messages # << >> /\ Len(result.error_messages[1]) = n
       /\ result.compiled_line_counts # << >> /\ Len(result.compiled_line_counts[1]) = n

\* The record of the task is the four lists of the attempt that is running.
IsOfThisAttempt(result) ==
    /\ result.correctness = << correctness >>
    /\ result.error_positions = << error_positions >>
    /\ result.error_messages = << error_messages >>
    /\ result.compiled_line_counts = << compiled_line_counts >>

\* C27: the file the primary run writes has one record per task, the record
\* at position i has statement_idx i, and the four fields of a record are all
\* none or all lists as long as the candidates of the task, the lists of one
\* single attempt: an attempt starts with empty lists, every pass adds one
\* entry to each of the four, and a record is only ever set, as a whole, to
\* the lists of the attempt that returns.
C27_OneRecordPerTask ==
    /\ []((script = "validate" /\ file # << >>) =>
            /\ Len(file[1]) = Len(tasks)
            /\ \A i \in 1..Len(file[1]) :
                  /\ file[1][i].statement_idx = i - 1
                  /\ NoneOrListsOf(file[1][i], Len(tasks[i].candidates)))
    /\ [](script = "validate" =>
            /\ Len(error_positions) = Len(correctness)
            /\ Len(error_messages) = Len(correctness)
            /\ Len(compiled_line_counts) = Len(correctness))
    /\ [][script = "validate" =>
            /\ (pc # "check" /\ pc' = "check") => correctness' = << >>
            /\ (pc = "check" /\ pc' = "check" /\ n_tries' = n_tries) =>
                  Len(correctness') <= Len(correctness) + 1
            /\ (pc = "check" /\ pc' = "check") => n_tries' = n_tries /\ idx' = idx
            /\ validation_result' # validation_result =>
                  \/ NoneOrListsOf(validation_result', 0) /\ validation_result'.correctness = << >>
                  \/ /\ pc = "check"
                     /\ IsOfThisAttempt(validation_result')
                     /\ Len(correctness) = Len(tasks[idx + 1].candidates)]_vars

\* The primary run has written its file: the first task has no result after
\* its attempts, the last one got its lists from a second or third attempt.
C27_Witness ==
    /\ script = "validate" /\ pc = "done" /\ file # << >>
    /\ file[1][1].correctness = << >>
    /\ n_tries >= 2
    /\ validation_result.correctness # << >>
    /\ Len(validation_result.correctness[1]) >= 1

\* ---- C28
\* C28 (as stated): every compiled line count check_context_proofs records
\* that is not none lies between 0 and the number of lines of the proof text
\* of its candidate, wherever the first diagnostic starts, also inside the
\* statement.
C28_Original ==
    (pc = "check" /\ script = "validate") =>
        \A j \in 1..Len(compiled_line_counts) :
            compiled_line_counts[j] # << >> =>
                /\ compiled_line_counts[j][1] >= 0
                /\ compiled_line_counts[j][1] <= LineCount(tasks[idx + 1].candidates[j])

\* ---- C29
\* Candidate j of record i of a stored file has a verdict, true or false.
HasVerdict(stored, i, j) ==
    /\ stored[i].correctness # << >>
    /\ j <= Len(stored[i].correctness[1])
    /\ stored[i].correctness[1][j] # << >>

\* C29 (as stated): the repair pass loses no definite verdict: a candidate
\* whose stored correctness was true or false before the pass still has a
\* correctness of true or false in the file the pass writes.
C29_Original ==
    [][(script = "revalidate" /\ file # << >> /\ file' # file) =>
          \A i \in 1..Len(file[1]) : \A j \in 1..Len(tasks[i].candidates) :
              HasVerdict(file[1], i, j) => HasVerdict(file'[1], i, j)]_vars

\* ---- C30
\* The validation record stored for the generation record at position h.
StoredFor(h) == validation_data[h]

FullyIndeterminate(h) == StoredFor(h).correctness = << >>

\* One of the three lists of record h has another length than the candidates.
LengthDiffers(h) ==
    /\ ~ FullyIndeterminate(h)
    /\ \/ Len(StoredFor(h).correctness[1]) # Len(generation_data[h].candidates)
       \/ Len(StoredFor(h).error_messages[1]) # Len(generation_data[h].candidates)
       \/ Len(StoredFor(h).error_positions[1]) # Len(generation_data[h].candidates)

\* Candidate i of record h is not correct and has an error position.
IsFalseAttempt(h, i) ==
    /\ StoredFor(h).correctness[1][i] # << TRUE >>
    /\ StoredFor(h).error_positions[1][i] # << >>

\* The text of candidate i of record h, cut after the end line of its error.
TruncatedText(h, i) ==
    FalseAttempt(generation_data[h].candidates[i],
                 StoredFor(h).error_positions[1][i][1],
                 CountBreaks(task_data[generation_data[h].statement_idx + 1].theoremStatement) + 1)

\* The entry of output_data for record h is what the claim describes.
IsUniqueFalseAttempts(h) ==
    LET fa == output_data[h].false_attempts
        n == Len(generation_data[h].candidates)
    IN  /\ output_data[h].statement_idx = generation_data[h].statement_idx
        /\ \A a, b \in 1..Len(fa) : a # b => fa[a].proof # fa[b].proof
        /\ \A a \in 1..Len(fa) :
              \E i \in 1..n :
                  /\ IsFalseAttempt(h, i)
                  /\ TruncatedText(h, i) = fa[a].proof
                  /\ \A g \in 1..(i - 1) :
                        ~ (IsFalseAttempt(h, g) /\ TruncatedText(h, g) = fa[a].proof)
                  /\ fa[a].error_message = StoredFor(h).error_messages[1][i]
                  /\ fa[a].error_position = StoredFor(h).error_positions[1][i]
        /\ \A i \in 1..n :
              IsFalseAttempt(h, i) => \E a \in 1..Len(fa) : fa[a].proof = TruncatedText(h, i)

\* C30 (as stated): extract_unique_false_proofs gives one entry per generation
\* record, with the distinct truncated texts of the candidates that are not
\* correct and have an error position, each with the message and position of
\* the first candidate that gave the text; it raises when a list of a record
\* has another length than the candidates, and only then: it completes for a
\* record whose stored outcome is fully indeterminate (correctness none).
C30_Original ==
    /\ fpc = "raised" => LengthDiffers(gen_pos + 1)
    /\ fpc = "done" =>
          /\ Len(output_data) = Len(generation_data)
          /\ \A h \in 1..Len(generation_data) :
                /\ ~ LengthDiffers(h)
                /\ IF FullyIndeterminate(h)
                   THEN output_data[h].false_attempts = << >>
                   ELSE IsUniqueFalseAttempts(h)

=============================================================================
